---- MODULE Spec2Model ----
(***************************************************************************)
(* kindle_bot: the bounded-retry caller (utils.requestWithBackoff with its *)
(* error classifier and the GetItems wrapper) and the time-sliced slot     *)
(* selector (utils.getIndexByTime).                                        *)
(*                                                                         *)
(* Durations are Go time.Duration values: signed 64-bit nanoseconds.  They *)
(* are kept as eight little-endian bytes so that the wrap-around of the    *)
(* int64 multiplication in the back-off computation is what Go computes.   *)
(***************************************************************************)
EXTENDS Integers, Sequences, FiniteSets, TLC

\* ------------------------------------------------------------------ bounds
MaxRetryCount == 36
TypicalRetryCount == 3
MaxInitialRetrySeconds == 2
MaxItemCount == 4
MaxCycleUnits == 8
MaxNow == 10

\* ------------------------------------------------------- program constants
\* rand.Intn(500): the jitter is a whole number of milliseconds below this
JitterMillis == 500
\* const maxWait = 30 * time.Second
MaxWaitSeconds == 30
\* the HTTP status the classifier retries
StatusTooManyRequests == 429

\* ------------------------------------------------ int64 as 8 bytes (LE)
Int64Index == 1..8

FromNat(n) ==
    [k \in Int64Index |->
        CASE k = 1 -> n % 256
          [] k = 2 -> (n \div 256) % 256
          [] k = 3 -> (n \div 65536) % 256
          [] k = 4 -> (n \div 16777216) % 256
          [] OTHER -> 0]

RECURSIVE MulFrom(_, _, _, _)
MulFrom(x, m, k, carry) ==
    IF k > 8 THEN <<>>
    ELSE LET t == x[k] * m + carry
         IN <<t % 256>> \o MulFrom(x, m, k + 1, t \div 256)

\* x * m modulo 2^64, for a multiplier 0 <= m < 2^23
MulSmall(x, m) == MulFrom(x, m, 1, 0)

RECURSIVE AddFrom(_, _, _)
AddFrom(x, k, carry) ==
    IF k > 8 THEN <<>>
    ELSE LET t == x[k] + carry
         IN <<t % 256>> \o AddFrom(x, k + 1, t \div 256)

\* x + s modulo 2^64, for an addend 0 <= s < 2^30
AddSmall(x, s) == AddFrom(x, 1, s)

IsNegative(x) == x[8] >= 128

RECURSIVE UnsignedGreaterFrom(_, _, _)
UnsignedGreaterFrom(x, y, k) ==
    IF k < 1 THEN FALSE
    ELSE IF x[k] # y[k] THEN x[k] > y[k]
    ELSE UnsignedGreaterFrom(x, y, k - 1)

\* x > y on signed 64-bit values
GreaterThan(x, y) ==
    IF IsNegative(x) # IsNegative(y) THEN IsNegative(y)
    ELSE UnsignedGreaterFrom(x, y, 8)

MinInt64 == [k \in Int64Index |-> IF k = 8 THEN 128 ELSE 0]
MaxInt64 == [k \in Int64Index |-> IF k = 8 THEN 127 ELSE 255]

Pow2Small(e) == CASE e = 0 -> 1 [] e = 1 -> 2 [] e = 2 -> 4 [] e = 3 -> 8
                  [] e = 4 -> 16 [] e = 5 -> 32 [] e = 6 -> 64 [] OTHER -> 128

\* time.Second, time.Millisecond as multipliers
MulSecond(x) == MulSmall(MulSmall(MulSmall(x, 1000), 1000), 1000)
Seconds(s) == MulSecond(FromNat(s))
Millis(ms) == MulSmall(MulSmall(FromNat(ms), 1000), 1000)

maxWait == Seconds(MaxWaitSeconds)

\* ------------------------------------------------------------ the errors
\* An error value as the classifier sees it.  chain is the Unwrap chain from
\* the outermost error inwards; a layer is an *errs.Error (errs = TRUE),
\* whose Context may hold "status" (0: no such key), or any other error
\* type.  eof says whether err.Error() contains the text "EOF".  class is
\* what the remote side did; the code never reads it.
Layer(isErrs, status) == [errs |-> isErrs, status |-> status]

\* client.Request hands back *errs.Error values: the status sits in the
\* outermost layer or in the one it wraps
ChainsOf(status) ==
    { <<Layer(TRUE, status)>>,
      <<Layer(TRUE, 0), Layer(TRUE, status)>> }

StatusOf(class) ==
    CASE class = "rateLimit" -> StatusTooManyRequests
      [] class = "malformed" -> 400
      [] class = "notFound" -> 404
      [] OTHER -> 0

RemoteErrors ==
    { [class |-> "rateLimit", eof |-> FALSE, chain |-> ch] :
        ch \in ChainsOf(StatusOf("rateLimit")) }
    \cup
    { [class |-> "malformed", eof |-> e, chain |-> <<Layer(TRUE, StatusOf("malformed"))>>] :
        e \in BOOLEAN }
    \cup
    { [class |-> "notFound", eof |-> FALSE, chain |-> <<Layer(TRUE, StatusOf("notFound"))>>],
      [class |-> "truncated", eof |-> TRUE, chain |-> <<Layer(TRUE, 0), Layer(FALSE, 0)>>] }

NoErr == [class |-> "nil"]

RECURSIVE findStatusCodeFrom(_, _)
findStatusCodeFrom(chain, k) ==
    IF k > Len(chain) THEN 0
    ELSE IF ~chain[k].errs THEN 0
    ELSE IF chain[k].status # 0 THEN chain[k].status
    ELSE findStatusCodeFrom(chain, k + 1)

findStatusCode(err) == findStatusCodeFrom(err.chain, 1)

isRetryableError(err) ==
    \/ findStatusCode(err) = StatusTooManyRequests
    \/ err.eof

\* ------------------------------------------------------ the back-off wait
\* time.Duration(math.Pow(2, float64(i))): exact below 2^63; from 2^63 on the
\* float does not fit an int64 and the conversion is implementation-dependent
\* (amd64 yields the minimum int64, arm64 saturates), so ovf is either.
Pow2AsDuration(i, ovf) ==
    IF i < 63
    THEN [k \in Int64Index |-> IF k = (i \div 8) + 1 THEN Pow2Small(i % 8) ELSE 0]
    ELSE ovf

\* waitTime := Duration(2^i) * time.Second * Duration(initialRetrySeconds)
\* waitTime += Duration(rand.Intn(500)) * time.Millisecond
UncappedWait(i, initialRetrySecs, jitter, ovf) ==
    AddSmall(MulSmall(MulSecond(Pow2AsDuration(i, ovf)), initialRetrySecs),
             jitter * 1000000)

\* if waitTime > maxWait { waitTime = maxWait }
backoffWait(i, initialRetrySecs, jitter, ovf) ==
    LET w == UncappedWait(i, initialRetrySecs, jitter, ovf)
    IN IF GreaterThan(w, maxWait) THEN maxWait ELSE w

\* ----------------------------------------------------- requestWithBackoff
Runs == {1, 2}
Bodies == {"json", "notjson"}

Outcomes ==
    { [ok |-> TRUE, body |-> b, err |-> NoErr] : b \in Bodies }
    \cup { [ok |-> FALSE, body |-> "none", err |-> e] : e \in RemoteErrors }

JitterSamples == {0, JitterMillis \div 2, JitterMillis - 1}

InitRun ==
    [pc |-> "loop", i |-> 0, attempts |-> 0, sleeps |-> 0,
     waitTime |-> FromNat(0), body |-> "none", err |-> NoErr]

MaxRetriesErrorNoCause(err) == [class |-> "plain", msg |-> "Max retries reached"]

\* fmt.Errorf("max retries reached, last error: %w", err)
MaxRetriesError(err) ==
    [class |-> "wrapped", msg |-> "max retries reached, last error", cause |-> err]

\* fmt.Errorf("unexpected: loop completed without return")
UnexpectedError == [class |-> "plain", msg |-> "unexpected: loop completed without return"]

IsLastAttemptEarly(i, maxRetries) == i >= maxRetries - 2
IsLastAttemptLate(i, maxRetries) == i = maxRetries

\* if i == maxRetryCount-1
IsLastAttempt(i, maxRetries) == i = maxRetries - 1

ReturnFatalRetried(st, err) == [st EXCEPT !.i = @ + 1]

\* return nil, err    (the error is not retryable)
ReturnFatal(st, err) == [st EXCEPT !.pc = "returned", !.err = err, !.waitTime = FromNat(0)]

\* time.Sleep(waitTime); continue
SleepAndContinue(st, w) ==
    [st EXCEPT !.i = @ + 1, !.sleeps = @ + 1, !.waitTime = w]

\* the metric names one loop iteration hands to PutMetric, in order
MetricsOf(i, out, maxRetries) ==
    <<"PAAPIRequest">> \o
    (IF out.ok THEN <<"PAAPISuccess">>
     ELSE <<"PAAPIFailure">> \o
          (IF isRetryableError(out.err) /\ IsLastAttempt(i, maxRetries)
           THEN <<"PAAPIMaxRetriesReached">> ELSE <<>>))

\* PutMetric: the error it returns for each name handed to it
PutMetric(sinkOk, names) ==
    [k \in 1..Len(names) |-> IF sinkOk THEN "nil" ELSE "sink unavailable"]

\* one iteration of the loop, the metric calls left out
IterDecision(st, out, w, maxRetries) ==
    LET st1 == [st EXCEPT !.attempts = @ + 1]
    IN IF out.ok
       THEN [st1 EXCEPT !.pc = "returned", !.body = out.body, !.waitTime = FromNat(0)]
       ELSE IF isRetryableError(out.err)
            THEN IF IsLastAttempt(st.i, maxRetries)
                 THEN [st1 EXCEPT !.pc = "returned", !.err = MaxRetriesError(out.err),
                                  !.waitTime = FromNat(0)]
                 ELSE SleepAndContinue(st1, w)
            ELSE ReturnFatal(st1, out.err)

IterAbortsOnMetricError(st, out, w, maxRetries, sinkOk) ==
    IF sinkOk THEN IterDecision(st, out, w, maxRetries)
    ELSE [st EXCEPT !.pc = "returned", !.attempts = @ + 1, !.waitTime = FromNat(0),
                    !.err = [class |-> "plain", msg |-> "sink unavailable"]]

\* one iteration of the loop: the results of PutMetric are dropped
requestWithBackoffIter(st, out, w, maxRetries, sinkOk) ==
    LET dropped == PutMetric(sinkOk, MetricsOf(st.i, out, maxRetries))
    IN IterDecision(st, out, w, maxRetries)

\* entity.DecodeResponse(body)
DecodeFails(body) == body # "json"

\* GetItems / SearchItems after requestWithBackoff has returned
GetItems(st) ==
    IF st.err # NoErr THEN [st EXCEPT !.pc = "done", !.body = "none"]
    ELSE IF DecodeFails(st.body)
         THEN [st EXCEPT !.pc = "done", !.body = "none",
                         !.err = [class |-> "wrapped", msg |-> "json decode error",
                                  cause |-> [class |-> "decode"]]]
         ELSE [st EXCEPT !.pc = "done"]

VARIABLES
    maxRetryCount,        \* argument of requestWithBackoff
    initialRetrySeconds,  \* argument of requestWithBackoff
    run,                  \* per execution: loop index i, position, attempts made,
                          \* sleeps taken, the duration of the last sleep, and
                          \* the body and error returned
    nRetryable,           \* answers of the remote call so far that
                          \* isRetryableError accepts
    nFatal,               \* ... that it rejects
    nOk,                  \* ... that were successes
    lastOut,              \* the latest answer of the remote call
    sinkFailed,           \* per execution: has a PutMetric call failed
    itemCount,            \* argument of getIndexByTime
    cycleUnits,           \* cycleDays, in units of 2^-17 day
    now,                  \* time.Now().Unix()
    slot,                 \* the latest getIndexByTime call: position and result
    s3,                   \* the bucket: the objects the checkers read and write
    inv,                  \* per invocation of a slot-scheduled checker: position
                          \* in process, its locals, and what it has done so far
    lastPass,             \* the latest invocation that ProcessSlot let proceed
    overlap,              \* has an invocation started while another was running
    sale,                 \* sale-checker: its latest run and what its runs have
                          \* processed since the latest run that started at 0
    remote,               \* the release date and the price the lookup API
                          \* reports for each book
    clearing,             \* a sale-checker run, step by step, beside a checker
                          \* that appends to the upcoming list
    paper,                \* paper-to-kindle checker: its run
    cleaning              \* a call of cleanTitle: its argument and its result

retryVars == <<maxRetryCount, initialRetrySeconds, run, nRetryable, nFatal, nOk, lastOut,
               sinkFailed>>
slotVars == <<itemCount, cycleUnits, now, slot>>
checkerVars == <<s3, inv, lastPass, overlap>>
saleVars == <<sale, remote, clearing>>
paperVars == <<paper, cleaning>>
vars == <<maxRetryCount, initialRetrySeconds, run, nRetryable, nFatal, nOk, lastOut,
          sinkFailed,
          itemCount, cycleUnits, now, slot,
          s3, inv, lastPass, overlap,
          sale, remote, clearing,
          paper, cleaning>>

NoOut == [ok |-> FALSE, body |-> "none", err |-> NoErr]
IdleSlot == [pc |-> "idle", index |-> 0]

\* strconv.Itoa(index): the decimal text of an integer; any other content of
\* a cursor object (empty, not a number) is Unparseable
Itoa(i) == [text |-> "decimal", n |-> i]
Unparseable == [text |-> "other", n |-> 0]

\* two invocations of a checker may be alive at once
Invocations == {1, 2}

IdleInv == [pc |-> "idle", index |-> 0, cycle |-> 0, prev |-> Unparseable,
            notifiedMap |-> {}, upcomingMap |-> {}, items |-> {}, found |-> {},
            trace |-> <<>>, err |-> "", raced |-> FALSE, sinkFailed |-> FALSE]
NoPass == [set |-> FALSE, cycle |-> 0, index |-> 0, by |-> 0, wrote |-> FALSE,
           ended |-> "", repeat |-> "no"]

\* the objects of the bucket: the cursor and the lists of the slot-scheduled
\* checkers, the cursor and the list of sale-checker, the cursor and the list
\* of the paper-to-kindle checker
EmptyBucket ==
    [prevIndex |-> Unparseable, notified |-> <<>>, upcoming |-> <<>>,
     salePrevIndex |-> Unparseable, unprocessed |-> <<>>,
     paperPrevIndex |-> Unparseable, paperBooks |-> <<>>]

MaxBooks == 25

\* the ASINs of the stored books and of one book that is new
BookAsins == 1..(MaxBooks + 1)

\* release dates: the book with ASIN a is first stored with date
\* InitialDate(a), so that a list in ASIN order has its latest release first
InitialDate(a) == 2 * (MaxBooks + 2 - a)

\* what the lookup API first reports for a book: the stored date and price
InitialRemote == [a \in BookAsins |-> [date |-> InitialDate(a), price |-> 1]]

IdleSale ==
    [pc |-> "idle", err |-> "", n |-> 0, read |-> 0, startIndex |-> 0, endIndex |-> 0,
     count |-> 0, due |-> 0, clean |-> FALSE, wrapped |-> FALSE, removed |-> 0,
     visits |-> [a \in BookAsins |-> 0], lastWrap |-> [a \in BookAsins |-> 0],
     processed |-> <<>>, dropped |-> <<>>, unchanged |-> FALSE, trace |-> <<>>,
     requested |-> {}, response |-> {}, alerts |-> {}]

\* sale-checker is not running
\* no sale-checker run is followed step by step
IdleClearing ==
    [pc |-> "idle", err |-> "", originalBooks |-> <<>>, upcomingBooks |-> <<>>,
     startIndex |-> 0, processedBooks |-> <<>>, updatedBooks |-> <<>>,
     currentUpcoming |-> <<>>, cleared |-> FALSE,
     appender |-> "idle", upcomingMap |-> {}, stored |-> {}]
SaleUnused == sale = IdleSale /\ remote = InitialRemote /\ clearing = IdleClearing

\* the paper-to-kindle checker is not running
NoBook == [asin |-> 0, date |-> 0, price |-> 0, maxPrice |-> 0]
IdlePaper ==
    [pc |-> "idle", err |-> "", runs |-> 0, index |-> 0, asin |-> 0, kindle |-> NoBook,
     books |-> <<>>, notifiedMap |-> {}, upcomingMap |-> {}, stored |-> <<>>,
     known |-> {}, trace |-> <<>>]
\* cleanTitle is not called
IdleCleaning == [pc |-> "idle", title |-> <<>>, result |-> <<>>]
PaperUnused == paper = IdlePaper /\ cleaning = IdleCleaning

\* no checker is running
CheckerUnused ==
    /\ s3 = EmptyBucket
    /\ inv = [p \in Invocations |-> IdleInv]
    /\ lastPass = NoPass
    /\ overlap = FALSE
    /\ SaleUnused
    /\ PaperUnused

\* the first execution's metric sink works, the second one's may fail
MetricSinks == { [r \in Runs |-> r = 1 \/ ok] : ok \in BOOLEAN }

\* the retry counts tried: the usual small ones and one long run
RetryCounts == 0..TypicalRetryCount \cup {MaxRetryCount}

Init ==
    /\ maxRetryCount \in RetryCounts
    /\ initialRetrySeconds \in 0..MaxInitialRetrySeconds
    /\ run = [r \in Runs |-> InitRun]
    /\ nRetryable = 0 /\ nFatal = 0 /\ nOk = 0
    /\ lastOut = NoOut
    /\ sinkFailed = [r \in Runs |-> FALSE]
    /\ itemCount = 1 /\ cycleUnits = 1 /\ now = 0 /\ slot = IdleSlot
    /\ CheckerUnused

\* what the float conversion of 2^i may yield where it is out of range
FloatToInt64Overflow(i) == IF i < 63 THEN {MinInt64} ELSE {MinInt64, MaxInt64}


InLoop(st) == st.pc = "loop" /\ st.i < maxRetryCount

\* body, err := client.Request(q) and the rest of the loop body, for both
\* executions: same remote outcome and jitter, each its own metric sink
Attempt ==
    /\ \E r \in Runs : InLoop(run[r])
    /\ \E out \in Outcomes, j \in JitterSamples, ovf \in FloatToInt64Overflow(run[1].i),
          sink \in MetricSinks :
        /\ run' = [r \in Runs |->
                     IF InLoop(run[r])
                     THEN requestWithBackoffIter(run[r], out,
                              backoffWait(run[r].i, initialRetrySeconds, j, ovf),
                              maxRetryCount, sink[r])
                     ELSE run[r]]
        /\ lastOut' = out
        /\ sinkFailed' = [r \in Runs |->
                             sinkFailed[r] \/ (InLoop(run[r]) /\ ~sink[r])]
        /\ nOk' = nOk + (IF out.ok THEN 1 ELSE 0)
        /\ nRetryable' = nRetryable +
                (IF ~out.ok /\ isRetryableError(out.err) THEN 1 ELSE 0)
        /\ nFatal' = nFatal +
                (IF ~out.ok /\ ~isRetryableError(out.err) THEN 1 ELSE 0)
    /\ UNCHANGED <<maxRetryCount, initialRetrySeconds>>
    /\ UNCHANGED <<slotVars, checkerVars, saleVars, paperVars>>

\* the range loop ends without a return
LoopExit ==
    /\ \E r \in Runs : run[r].pc = "loop" /\ ~InLoop(run[r])
    /\ run' = [r \in Runs |->
                 IF run[r].pc = "loop" /\ ~InLoop(run[r])
                 THEN [run[r] EXCEPT !.pc = "returned", !.err = UnexpectedError]
                 ELSE run[r]]
    /\ UNCHANGED <<maxRetryCount, initialRetrySeconds, nRetryable, nFatal, nOk, lastOut,
                   sinkFailed>>
    /\ UNCHANGED <<slotVars, checkerVars, saleVars, paperVars>>

\* the caller decodes the body it was handed
GetItemsReturn ==
    /\ \A r \in Runs : run[r].pc # "loop"
    /\ \E r \in Runs : run[r].pc = "returned"
    /\ run' = [r \in Runs |-> IF run[r].pc = "returned" THEN GetItems(run[r]) ELSE run[r]]
    /\ UNCHANGED <<maxRetryCount, initialRetrySeconds, nRetryable, nFatal, nOk, lastOut,
                   sinkFailed>>
    /\ UNCHANGED <<slotVars, checkerVars, saleVars, paperVars>>

Next == Attempt \/ LoopExit \/ GetItemsReturn

Spec == Init /\ [][Next]_vars

\* ================================================= requestWithBackoff claims
Finished(st) == st.pc # "loop"

\* C1: after k retryable failures followed by a success, with maxRetryCount > k,
\* the call has returned that body after exactly k+1 attempts and k sleeps;
\* and while only k < maxRetryCount retryable failures have happened the call
\* has not given up: it slept once per failure and the next attempt is due.
C1_SuccessAfterKFailures ==
    \A r \in Runs :
        /\ nOk = 1 =>
              /\ Finished(run[r])
              /\ run[r].pc = "returned" => run[r].err = NoErr /\ run[r].body = lastOut.body
              /\ nFatal = 0
              /\ run[r].attempts = nRetryable + 1
              /\ run[r].sleeps = nRetryable
        /\ (nOk = 0 /\ nFatal = 0 /\ nRetryable < maxRetryCount) =>
              /\ run[r].pc = "loop"
              /\ run[r].attempts = nRetryable
              /\ run[r].sleeps = nRetryable

C1_Witness ==
    /\ maxRetryCount = 3 /\ nRetryable = 2 /\ nOk = 1
    /\ run[1].pc = "returned" /\ run[1].err = NoErr /\ run[1].body = "json"
    /\ run[1].attempts = 3 /\ run[1].sleeps = 2

\* C2: an attempt that fails with an error the classifier calls fatal ends the
\* call at once with that very error: no further attempt, no sleep after it;
\* a stub whose first answer is fatal is called once and nothing sleeps.
C2_FatalReturnsImmediately ==
    \A r \in Runs :
        nFatal >= 1 =>
            /\ nFatal = 1
            /\ Finished(run[r])
            /\ run[r].err = lastOut.err
            /\ run[r].attempts = nRetryable + 1
            /\ run[r].sleeps = nRetryable
            /\ nRetryable = 0 => run[r].attempts = 1 /\ run[r].sleeps = 0

C2_Witness ==
    /\ maxRetryCount = MaxRetryCount /\ nFatal = 1 /\ nRetryable = 0
    /\ run[1].pc = "returned" /\ run[1].attempts = 1 /\ run[1].sleeps = 0
    /\ run[1].err = lastOut.err /\ lastOut.err.class = "notFound"

\* C3: with maxRetryCount = N >= 1 there are never more than N attempts nor
\* more than N-1 sleeps; a stub that only fails retryably is called exactly N
\* times with N-1 sleeps and the call has then returned an error.
C3_AtMostNAttempts ==
    \A r \in Runs :
        maxRetryCount >= 1 =>
            /\ run[r].attempts <= maxRetryCount
            /\ run[r].sleeps <= maxRetryCount - 1
            /\ (nOk = 0 /\ nFatal = 0 /\ nRetryable >= maxRetryCount) =>
                  /\ Finished(run[r])
                  /\ run[r].err # NoErr
                  /\ run[r].body = "none"
                  /\ run[r].attempts = maxRetryCount
                  /\ run[r].sleeps = maxRetryCount - 1

C3_Witness ==
    /\ maxRetryCount = 1 /\ nRetryable = 1 /\ nOk = 0 /\ nFatal = 0
    /\ run[1].pc = "returned" /\ run[1].err # NoErr
    /\ run[1].attempts = 1 /\ run[1].sleeps = 0

\* min(D * 2^i seconds + j milliseconds, 30 s) in exact arithmetic
ExactWait(i, initialRetrySecs, j) ==
    IF initialRetrySecs = 0 THEN Millis(j)
    ELSE IF i >= 5 THEN maxWait
    ELSE LET secs == initialRetrySecs * Pow2Small(i)
         IN IF secs >= MaxWaitSeconds THEN maxWait ELSE Millis(secs * 1000 + j)

Sleeping(st) == st.pc = "loop" /\ st.sleeps > 0

\* C4: the sleep after the i-th failed attempt is min(D * 2^(i-1) + j, 30s)
\* for a jitter j in [0, 500ms); with maxRetryCount = 3 and D = 2 the first
\* sleep lies in [2s, 2.5s) and the second in [4s, 4.5s).
C4_BackoffFormula ==
    \A r \in Runs :
        Sleeping(run[r]) =>
            /\ \E j \in 0..(JitterMillis - 1) :
                   run[r].waitTime = ExactWait(run[r].i - 1, initialRetrySeconds, j)
            /\ (maxRetryCount = 3 /\ initialRetrySeconds = 2) =>
                   /\ ~GreaterThan(Seconds(2 * run[r].i), run[r].waitTime)
                   /\ GreaterThan(Millis(2000 * run[r].i + JitterMillis), run[r].waitTime)

\* C5: every duration handed to time.Sleep lies in [0, 30s]: the 64-bit
\* product never wraps around and never is negative.
C5_WaitNeverWraps ==
    \A r \in Runs :
        Sleeping(run[r]) =>
            /\ ~IsNegative(run[r].waitTime)
            /\ ~GreaterThan(run[r].waitTime, maxWait)

Exhausted(st) ==
    /\ Finished(st) /\ maxRetryCount >= 1
    /\ nOk = 0 /\ nFatal = 0 /\ nRetryable = maxRetryCount

\* C6 (as claimed): on exhaustion the returned error wraps the last attempt's
\* error and names the number of attempts made.
C6_ExhaustionNamesAttempts ==
    \A r \in Runs :
        Exhausted(run[r]) =>
            /\ "cause" \in DOMAIN run[r].err
            /\ run[r].err.cause = lastOut.err
            /\ "attempts" \in DOMAIN run[r].err
            /\ run[r].err.attempts = run[r].attempts

\* C6 (amended): on exhaustion the returned error wraps the last attempt's
\* error under the fixed text "max retries reached, last error"; it carries
\* nothing else, in particular no attempt count.
C6_ExhaustionWrapsLastError ==
    \A r \in Runs :
        Exhausted(run[r]) =>
            /\ DOMAIN run[r].err = {"class", "msg", "cause"}
            /\ run[r].err.class = "wrapped"
            /\ run[r].err.msg = "max retries reached, last error"
            /\ run[r].err.cause = lastOut.err

C6_Witness ==
    /\ Exhausted(run[1]) /\ maxRetryCount = 3 /\ run[1].attempts = 3
    /\ run[1].err = MaxRetriesError(lastOut.err) /\ lastOut.err.class = "rateLimit"

\* the attempt just made was answered by a retry (a sleep, or giving up as
\* exhausted) rather than by handing the error back as it is
Retried(st) == st.pc = "loop" \/ (st.err # NoErr /\ st.err.class = "wrapped"
                                   /\ st.err.msg = "max retries reached, last error")

\* C7: an error is retried exactly if it is a rate-limit (429) or a truncated
\* read (EOF); malformed-request and not-found errors are never retried,
\* whatever their text or wrapping; a body that fails to decode is not
\* re-requested.
C7_Classification ==
    \A r \in Runs :
        /\ (lastOut # NoOut /\ ~lastOut.ok /\ run[r].pc # "done") =>
              (Retried(run[r]) <=> lastOut.err.class \in {"rateLimit", "truncated"})
        /\ (lastOut.ok /\ DecodeFails(lastOut.body)) => Finished(run[r])

\* C8: two executions fed the same remote outcomes and jitter, one with a
\* working metric sink and one with a failing sink, agree on the returned
\* value, the attempts, the sleeps and the waits.
C8_MetricsObservational == run[1] = run[2]

C8_Witness ==
    /\ ~sinkFailed[1] /\ sinkFailed[2]
    /\ run[1].pc = "returned" /\ run[2].pc = "returned"
    /\ run[1].attempts = 3 /\ run[1].sleeps = 2 /\ run[1].err = NoErr

\* ========================================================== the slot selector
\* cycleDays is the float64 cycleUnits / 2^17 (a day is 2^17 units, so every
\* value and every product below is exact in float64, and cycleUnits = 1 is
\* the fractional cycle of about 0.66 s).
secondsPerCycleOfHours(units) == (units * 675) \div (1024 * 24)

\* secondsPerCycle := int64(cycleDays * 24 * 60 * 60), truncated towards zero:
\* cycleUnits * 86400 / 2^17 = cycleUnits * 675 / 1024
secondsPerCycle(units) == (units * 675) \div 1024

getIndexByTimeCeil(count, units, unixNow) ==
    IF count <= 0 THEN [panic |-> FALSE, index |-> 0]
    ELSE LET spc == secondsPerCycle(units)
         IN IF spc = 0 THEN [panic |-> TRUE, index |-> 0]
            ELSE [panic |-> FALSE,
                  index |-> ((unixNow % spc) * count + spc - 1) \div spc]

getIndexByTimeModulo(count, units, unixNow) ==
    IF count <= 0 THEN [panic |-> FALSE, index |-> 0]
    ELSE LET spc == secondsPerCycle(units)
         IN IF spc = 0 THEN [panic |-> TRUE, index |-> 0]
            ELSE [panic |-> FALSE, index |-> (unixNow % spc) % count]

\* sec := now % secondsPerCycle; return int(sec * itemCount / secondsPerCycle)
\* (an integer division by zero panics); the values stay far below 2^63
getIndexByTime(count, units, unixNow) ==
    IF count <= 0 THEN [panic |-> FALSE, index |-> 0]
    ELSE LET spc == secondsPerCycle(units)
         IN IF spc = 0 THEN [panic |-> TRUE, index |-> 0]
            ELSE [panic |-> FALSE, index |-> ((unixNow % spc) * count) \div spc]

SlotInit ==
    /\ itemCount \in 0..MaxItemCount
    /\ cycleUnits \in 1..MaxCycleUnits
    /\ now \in {0}
    /\ slot = IdleSlot
    /\ maxRetryCount = 0 /\ initialRetrySeconds = 0
    /\ run = [r \in Runs |-> InitRun]
    /\ nRetryable = 0 /\ nFatal = 0 /\ nOk = 0
    /\ lastOut = NoOut
    /\ sinkFailed = [r \in Runs |-> FALSE]
    /\ CheckerUnused

\* a second of wall-clock time passes between invocations
Tick ==
    /\ now < MaxNow
    /\ now' = now + 1
    /\ slot' = IdleSlot
    /\ UNCHANGED <<itemCount, cycleUnits>>
    /\ UNCHANGED <<retryVars, checkerVars, saleVars, paperVars>>

\* an invocation computes its due index at the current time
CallGetIndexByTime ==
    /\ slot.pc = "idle"
    /\ LET res == getIndexByTime(itemCount, cycleUnits, now)
       IN slot' = [pc |-> IF res.panic THEN "panic" ELSE "returned", index |-> res.index]
    /\ UNCHANGED <<itemCount, cycleUnits, now>>
    /\ UNCHANGED <<retryVars, checkerVars, saleVars, paperVars>>

SlotNext == Tick \/ CallGetIndexByTime

SlotSpec == SlotInit /\ [][SlotNext]_vars

\* C9: for every cycleDays > 0, fractional ones included, every n > 0 and
\* every time the computation completes with an index in [0, n).
C9_IndexInRange ==
    itemCount > 0 =>
        /\ slot.pc # "panic"
        /\ slot.pc = "returned" => 0 <= slot.index /\ slot.index < itemCount

\* the index of second s of the cycle, and the width of window k
IndexAt(s) == getIndexByTime(itemCount, cycleUnits, s).index
WindowWidth(k) ==
    Cardinality({ s \in 0..(secondsPerCycle(cycleUnits) - 1) : IndexAt(s) = k })

RECURSIVE SumOfWidths(_)
SumOfWidths(k) == IF k < 0 THEN 0 ELSE WindowWidth(k) + SumOfWidths(k - 1)

\* what C10 says of every second but the last one of the cycle
SlotPartition ==
    LET cs == secondsPerCycle(cycleUnits)
    IN /\ slot.index = ((now % cs) * itemCount) \div cs
       /\ \A s1, s2 \in 0..(cs - 1) : s1 <= s2 => IndexAt(s1) <= IndexAt(s2)
       /\ \A s \in 0..(cs - 1) :
              Cardinality({ k \in 0..(itemCount - 1) : IndexAt(s) = k }) = 1
       /\ IndexAt(0) = 0
       /\ SumOfWidths(itemCount - 1) = cs

\* C10 (as claimed): each second s of the cycle maps to the one index
\* floor(s*n/cycleSeconds), non-decreasing in s, 0 at s = 0 and n-1 at
\* s = cycleSeconds-1, and the n window widths sum to cycleSeconds.
C10_PartitionEndsAtLast ==
    (slot.pc = "returned" /\ itemCount > 0) =>
        /\ SlotPartition
        /\ IndexAt(secondsPerCycle(cycleUnits) - 1) = itemCount - 1

\* C10 (amended): the same, but the last second maps to n-1 only when
\* n <= cycleSeconds; in general it maps to floor((cycleSeconds-1)*n/cycleSeconds).
C10_Partition ==
    (slot.pc = "returned" /\ itemCount > 0) =>
        LET cs == secondsPerCycle(cycleUnits)
        IN /\ SlotPartition
           /\ IndexAt(cs - 1) = ((cs - 1) * itemCount) \div cs
           /\ itemCount <= cs => IndexAt(cs - 1) = itemCount - 1

C10_Witness ==
    /\ slot.pc = "returned" /\ itemCount = 3 /\ secondsPerCycle(cycleUnits) = 5
    /\ now = 9 /\ slot.index = 2

\* the windows are contiguous and follow the position order: the index never
\* decreases within a cycle and starts at position 0
WindowsInOrder ==
    LET cs == secondsPerCycle(cycleUnits)
    IN /\ IndexAt(0) = 0
       /\ \A s \in 0..(cs - 2) : IndexAt(s) <= IndexAt(s + 1)

\* C11 (as claimed): the n windows have the same width cycleSeconds/n, are
\* contiguous and in position order, and every position is due at some second.
C11_EqualWindows ==
    (slot.pc = "returned" /\ itemCount > 0) =>
        LET cs == secondsPerCycle(cycleUnits)
        IN /\ WindowsInOrder
           /\ \A k \in 0..(itemCount - 1) :
                  /\ WindowWidth(k) * itemCount = cs
                  /\ WindowWidth(k) >= 1

\* C11 (amended): the windows are contiguous and in position order; each is
\* floor(cycleSeconds/n) or that plus one second wide, all are cycleSeconds/n
\* wide when n divides cycleSeconds, and every position is due at some second
\* exactly when n <= cycleSeconds.
C11_NearlyEqualWindows ==
    (slot.pc = "returned" /\ itemCount > 0) =>
        LET cs == secondsPerCycle(cycleUnits)
        IN /\ WindowsInOrder
           /\ \A k \in 0..(itemCount - 1) :
                  /\ WindowWidth(k) \in {cs \div itemCount, (cs \div itemCount) + 1}
                  /\ cs % itemCount = 0 => WindowWidth(k) * itemCount = cs
           /\ (\A k \in 0..(itemCount - 1) : WindowWidth(k) >= 1) <=> itemCount <= cs

C11_Witness ==
    /\ slot.pc = "returned" /\ itemCount = 3 /\ secondsPerCycle(cycleUnits) = 5
    /\ now = 7 /\ slot.index = 1
    /\ WindowWidth(0) = 2 /\ WindowWidth(2) = 1

\* ------------------------------------------------ the one-day cycle scenario
\* the retry component is not running
RetryUnused ==
    /\ maxRetryCount = 0 /\ initialRetrySeconds = 0
    /\ run = [r \in Runs |-> InitRun]
    /\ nRetryable = 0 /\ nFatal = 0 /\ nOk = 0
    /\ lastOut = NoOut
    /\ sinkFailed = [r \in Runs |-> FALSE]

\* the instants at which the one-day cycle is observed: every full hour and
\* the seconds around the boundaries of three 8-hour windows, over two cycles
ScenarioSeconds ==
    LET day == {h * 3600 : h \in 0..23} \cup {28799, 28800, 57599, 57600, 59999, 86399}
    IN day \cup {86400 + s : s \in day}

\* cycleDays = 1.0 is 131072 units of 2^-17 day
DayInit ==
    /\ itemCount \in 1..MaxItemCount
    /\ cycleUnits = 131072
    /\ now = 0
    /\ slot = IdleSlot
    /\ RetryUnused
    /\ CheckerUnused

\* wall-clock time passes until a later instant
Elapse ==
    /\ \E t \in ScenarioSeconds : t > now /\ now' = t
    /\ slot' = IdleSlot
    /\ UNCHANGED <<itemCount, cycleUnits>>
    /\ UNCHANGED <<retryVars, checkerVars, saleVars, paperVars>>

DayNext == Elapse \/ CallGetIndexByTime

DaySpec == DayInit /\ [][DayNext]_vars

SecondsIntoCycle == now % secondsPerCycle(cycleUnits)

\* C12 (as claimed): n = 3, cycleDays = 1: index 0 at second 0 of the cycle,
\* 1 at 28800, 1 at 59999 and 2 at 86399.
C12_Scenario ==
    (slot.pc = "returned" /\ itemCount = 3 /\ cycleUnits = 131072) =>
        /\ SecondsIntoCycle = 0 => slot.index = 0
        /\ SecondsIntoCycle = 28800 => slot.index = 1
        /\ SecondsIntoCycle = 59999 => slot.index = 1
        /\ SecondsIntoCycle = 86399 => slot.index = 2

\* C12 (amended): n = 3, cycleDays = 1: the windows are [0, 28800),
\* [28800, 57600) and [57600, 86400): index 0 at second 0, 1 at 28800 and at
\* 57599, and 2 at 57600, at 59999 and at 86399.
C12_ScenarioEightHours ==
    (slot.pc = "returned" /\ itemCount = 3 /\ cycleUnits = 131072) =>
        /\ secondsPerCycle(cycleUnits) = 86400
        /\ SecondsIntoCycle = 0 => slot.index = 0
        /\ SecondsIntoCycle = 28799 => slot.index = 0
        /\ SecondsIntoCycle = 28800 => slot.index = 1
        /\ SecondsIntoCycle = 57599 => slot.index = 1
        /\ SecondsIntoCycle = 57600 => slot.index = 2
        /\ SecondsIntoCycle = 59999 => slot.index = 2
        /\ SecondsIntoCycle = 86399 => slot.index = 2

C12_Witness ==
    /\ slot.pc = "returned" /\ itemCount = 3 /\ cycleUnits = 131072
    /\ now = 86400 + 59999 /\ slot.index = 2

\* ============================================ slot-scheduled checkers: the gate
\* (new-release-checker; paper-to-kindle-checker has the same process shape)
MaxAuthors == 2
MaxAsins == 2
MaxGateNow == 3

Asins == 1..MaxAsins

\* list from the map, utils.SortByReleaseDate, SaveASINs: the book with ASIN k
\* is released on day k, and the latest release comes first
RECURSIVE saveASINsFromMap(_)
saveASINsFromMap(m) ==
    IF m = {} THEN <<>>
    ELSE LET latest == CHOOSE a \in m : \A b \in m : b <= a
         IN <<latest>> \o saveASINsFromMap(m \ {latest})

\* m[b.ASIN] = b for every book of a fetched list (all books of the model are
\* released after the run's start, so FetchNotifiedASINs keeps them all)
MapOf(list) == { list[i] : i \in DOMAIN list }

\* prevIndex, _ := strconv.Atoi(string(prevIndexBytes)): 0 when it fails
AtoiOrMinusOne(body) == IF body.text = "decimal" THEN body.n ELSE 0 - 1
Atoi(body) == IF body.text = "decimal" THEN body.n ELSE 0

ProcessSlotNoGate(count, units, unixNow, get) ==
    IF count = 0
    THEN [panic |-> FALSE, index |-> 0, shouldProcess |-> FALSE,
          err |-> "no items available"]
    ELSE LET res == getIndexByTime(count, units, unixNow)
         IN IF res.panic
            THEN [panic |-> TRUE, index |-> 0, shouldProcess |-> FALSE, err |-> ""]
            ELSE IF ~get.ok
            THEN [panic |-> FALSE, index |-> 0, shouldProcess |-> FALSE,
                  err |-> "failed to fetch prev_index"]
            ELSE [panic |-> FALSE, index |-> res.index, shouldProcess |-> TRUE,
                  err |-> ""]

ProcessSlotNoEmptyCheck(count, units, unixNow, get) ==
    LET res == getIndexByTime(count, units, unixNow)
    IN IF res.panic
       THEN [panic |-> TRUE, index |-> 0, shouldProcess |-> FALSE, err |-> ""]
       ELSE IF ~get.ok
       THEN [panic |-> FALSE, index |-> 0, shouldProcess |-> FALSE,
             err |-> "failed to fetch prev_index"]
       ELSE [panic |-> FALSE, index |-> res.index,
             shouldProcess |-> Atoi(get.body) # res.index, err |-> ""]

\* ProcessSlot: get is the result of GetS3Object(cfg, prevIndexKey)
ProcessSlot(count, units, unixNow, get) ==
    IF count = 0
    THEN [panic |-> FALSE, index |-> 0, shouldProcess |-> FALSE,
          err |-> "no items available"]
    ELSE LET res == getIndexByTime(count, units, unixNow)
         IN IF res.panic
            THEN [panic |-> TRUE, index |-> 0, shouldProcess |-> FALSE, err |-> ""]
            ELSE IF ~get.ok
            THEN [panic |-> FALSE, index |-> 0, shouldProcess |-> FALSE,
                  err |-> "failed to fetch prev_index"]
            ELSE [panic |-> FALSE, index |-> res.index,
                  shouldProcess |-> Atoi(get.body) # res.index, err |-> ""]

processStepsCursorLast ==
    <<"fetch", "lookup", "saveNotified", "fetchUpcoming", "saveUpcoming", "saveAuthors",
      "cursor">>

\* the order in which process and processCore do their I/O once the gate has
\* let the run proceed: PutS3Object of the cursor, FetchNotifiedASINs and
\* fetchExcludedTitleKeywords, searchAuthorBooks, the three steps of
\* SaveNotifiedAndUpcomingASINs, and saveAuthors
processSteps ==
    <<"cursor", "fetch", "lookup", "saveNotified", "fetchUpcoming", "saveUpcoming",
      "saveAuthors">>

StepAfter(step) ==
    LET i == CHOOSE k \in DOMAIN processSteps : processSteps[k] = step
    IN IF i = Len(processSteps) THEN "done" ELSE processSteps[i + 1]

InFlightPcs == { processSteps[k] : k \in DOMAIN processSteps }
TerminalPcs == {"done", "skipped", "failed", "cancelled", "panic"}
InFlight(st) == st.pc \in InFlightPcs
Wrote(st, what) == \E k \in DOMAIN st.trace : st.trace[k] = what

\* getAuthorToProcess and the two early returns of process that follow it
getAuthorToProcess(authorsOk, ps) ==
    IF ~authorsOk THEN [pc |-> "failed", err |-> "failed to fetch authors"]
    ELSE IF ps.panic THEN [pc |-> "panic", err |-> ""]
    ELSE IF ps.err # "" THEN [pc |-> "failed", err |-> ps.err]
    ELSE IF ~ps.shouldProcess THEN [pc |-> "skipped", err |-> ""]
    ELSE [pc |-> processSteps[1], err |-> ""]

cursorBodyNext(index) == Itoa(index + 1)

\* strconv.Itoa(index), the body process puts under the cursor key
cursorBody(index) == Itoa(index)

AfterCursorIgnoringError(ok) == StepAfter("cursor")

\* if err = utils.PutS3Object(...); err != nil { return err }
AfterCursor(ok) == IF ok THEN StepAfter("cursor") ELSE "failed"

\* what searchAuthorBooks may answer: an error, or any set of eligible books;
\* and whether the posts of LogAndNotify (Mastodon, Slack) then succeed
LookupAnswers ==
    {[ok |-> FALSE, items |-> {}, sink |-> TRUE]}
        \cup {[ok |-> TRUE, items |-> S, sink |-> b] : S \in SUBSET Asins, b \in BOOLEAN}

\* LogAndNotify returns nothing: a post that fails is reported by AlertToSlack,
\* whose own error is dropped (the error that reaches the caller)
LogAndNotifyOrError(sinkOk) == IF sinkOk THEN "" ELSE "failed to post"
LogAndNotify(sinkOk) == ""

\* the number of the cycle a time falls in
CycleOf(units, unixNow) ==
    IF secondsPerCycle(units) = 0 THEN 0 ELSE unixNow \div secondsPerCycle(units)

\* the cycle lengths tried: too short for one second (see C9), and two seconds
GateCycleUnits == {1, 4}

\* the cursor object as earlier runs or a fresh deployment may have left it
InitialCursors(count) ==
    {Unparseable} \cup {Itoa(k) : k \in 0..(IF count > 0 THEN count - 1 ELSE 0)}

GateInit ==
    /\ itemCount \in 0..MaxAuthors
    /\ cycleUnits \in GateCycleUnits
    /\ now = 0
    /\ slot = IdleSlot
    /\ RetryUnused
    /\ s3 \in {[EmptyBucket EXCEPT !.prevIndex = c] : c \in InitialCursors(itemCount)}
    /\ inv = [p \in Invocations |-> IdleInv]
    /\ lastPass = NoPass
    /\ overlap = FALSE
    /\ SaleUnused
    /\ PaperUnused

\* return err
Fail(st, msg) == [st EXCEPT !.pc = "failed", !.err = msg]

\* lastPass follows the invocation it describes to its end
NoteEnd(lp, p, st) ==
    IF lp.by = p /\ st.pc \in TerminalPcs THEN [lp EXCEPT !.ended = st.pc] ELSE lp

\* process up to the return of getAuthorToProcess: fetchAuthors, and in
\* ProcessSlot the clock, the read of the cursor and the comparison.
\* Invocation 1 runs whenever it is idle; invocation 2 is one that starts
\* while invocation 1 is running.
Gate(p) ==
    /\ inv[p].pc = "idle"
    /\ p # 1 => InFlight(inv[1])
    /\ \E authorsOk \in BOOLEAN, getOk \in BOOLEAN :
        LET get == [ok |-> getOk, body |-> s3.prevIndex]
            ps == ProcessSlot(itemCount, cycleUnits, now, get)
            g == getAuthorToProcess(authorsOk, ps)
            cyc == CycleOf(cycleUnits, now)
            compared == g.pc = "skipped" \/ g.pc \in InFlightPcs
            passes == g.pc \in InFlightPcs
            sameWindow == lastPass.set /\ lastPass.cycle = cyc /\ lastPass.index = ps.index
        IN /\ inv' = [inv EXCEPT ![p] =
                        [IdleInv EXCEPT
                            !.pc = g.pc, !.err = g.err,
                            !.index = IF compared THEN ps.index ELSE 0,
                            !.cycle = cyc,
                            !.prev = IF compared THEN s3.prevIndex ELSE Unparseable,
                            !.raced = passes /\ \E q \in Invocations \ {p} :
                                          /\ InFlight(inv[q]) /\ ~Wrote(inv[q], "cursor")
                                          /\ inv[q].cycle = cyc /\ inv[q].index = ps.index]]
           /\ lastPass' =
                 IF passes
                 THEN [set |-> TRUE, cycle |-> cyc, index |-> ps.index, by |-> p,
                       wrote |-> FALSE, ended |-> "",
                       repeat |-> IF ~sameWindow THEN "no"
                                  ELSE IF lastPass.wrote THEN "afterWrite"
                                  ELSE "afterPass"]
                 ELSE lastPass
    /\ overlap' = (overlap \/ \E q \in Invocations \ {p} : InFlight(inv[q]))
    /\ UNCHANGED <<s3, slotVars, retryVars, saleVars, paperVars>>

\* utils.PutS3Object(cfg, strconv.Itoa(index), ...PrevIndex...ObjectKey)
PutCursor(p) ==
    /\ inv[p].pc = "cursor"
    /\ \E ok \in BOOLEAN :
        LET st == [inv[p] EXCEPT
                      !.pc = AfterCursor(ok),
                      !.err = IF ok THEN @ ELSE "failed to put prev_index",
                      !.trace = IF ok THEN Append(@, "cursor") ELSE @]
        IN /\ inv' = [inv EXCEPT ![p] = st]
           /\ s3' = IF ok THEN [s3 EXCEPT !.prevIndex = cursorBody(inv[p].index)] ELSE s3
           /\ lastPass' = NoteEnd(IF ok /\ lastPass.by = p
                                  THEN [lastPass EXCEPT !.wrote = TRUE]
                                  ELSE lastPass, p, st)
    /\ UNCHANGED <<overlap, slotVars, retryVars, saleVars, paperVars>>

\* processCore: utils.FetchNotifiedASINs and fetchExcludedTitleKeywords
FetchNotified(p) ==
    /\ inv[p].pc = "fetch"
    /\ \E ok \in BOOLEAN :
        LET st == IF ok
                  THEN [inv[p] EXCEPT !.pc = StepAfter("fetch"),
                                      !.notifiedMap = MapOf(s3.notified)]
                  ELSE Fail(inv[p], "failed to fetch notified ASINs")
        IN inv' = [inv EXCEPT ![p] = st] /\ lastPass' = NoteEnd(lastPass, p, st)
    /\ UNCHANGED <<s3, overlap, slotVars, retryVars, saleVars, paperVars>>

\* processCore from searchAuthorBooks to the end of the loop over the items:
\* a book not yet in notifiedMap is announced and put in both maps; with no
\* such book SaveNotifiedAndUpcomingASINs returns at once
searchAndNotify(st, ans) ==
    LET new == ans.items \ st.notifiedMap
        looked == [st EXCEPT !.trace = Append(@, "lookup"),
                             !.sinkFailed = ans.ok /\ new # {} /\ ~ans.sink]
    IN IF ~ans.ok THEN Fail(looked, "search failed")
       ELSE IF ans.items = {} THEN Fail(looked, "no search results found")
       ELSE IF new = {} THEN [looked EXCEPT !.pc = StepAfter("saveUpcoming"),
                                            !.items = ans.items]
       ELSE IF LogAndNotify(ans.sink) # "" THEN Fail(looked, LogAndNotify(ans.sink))
       ELSE [looked EXCEPT !.pc = StepAfter("lookup"),
                           !.items = ans.items,
                           !.trace = Append(@, "notify"),
                           !.notifiedMap = @ \cup new,
                           !.upcomingMap = new,
                           !.found = new]

Lookup(p) ==
    /\ inv[p].pc = "lookup"
    /\ \E ans \in LookupAnswers :
        LET st == searchAndNotify(inv[p], ans)
        IN inv' = [inv EXCEPT ![p] = st] /\ lastPass' = NoteEnd(lastPass, p, st)
    /\ UNCHANGED <<s3, overlap, slotVars, retryVars, saleVars, paperVars>>

\* SaveNotifiedAndUpcomingASINs: saveASINsFromMap(cfg, notifiedMap, ...)
SaveNotified(p) ==
    /\ inv[p].pc = "saveNotified"
    /\ \E ok \in BOOLEAN :
        LET st == IF ok
                  THEN [inv[p] EXCEPT !.pc = StepAfter("saveNotified"),
                                      !.trace = Append(@, "notified")]
                  ELSE Fail(inv[p], "failed to save notified ASINs")
        IN /\ inv' = [inv EXCEPT ![p] = st]
           /\ s3' = IF ok
                    THEN [s3 EXCEPT !.notified = saveASINsFromMap(inv[p].notifiedMap)]
                    ELSE s3
           /\ lastPass' = NoteEnd(lastPass, p, st)
    /\ UNCHANGED <<overlap, slotVars, retryVars, saleVars, paperVars>>

\* updateUpcomingASINs: FetchASINs of the current list, merged into upcomingMap
FetchUpcoming(p) ==
    /\ inv[p].pc = "fetchUpcoming"
    /\ \E ok \in BOOLEAN :
        LET st == IF ok
                  THEN [inv[p] EXCEPT !.pc = StepAfter("fetchUpcoming"),
                                      !.upcomingMap = @ \cup MapOf(s3.upcoming)]
                  ELSE Fail(inv[p], "failed to fetch upcoming ASINs")
        IN inv' = [inv EXCEPT ![p] = st] /\ lastPass' = NoteEnd(lastPass, p, st)
    /\ UNCHANGED <<s3, overlap, slotVars, retryVars, saleVars, paperVars>>

\* updateUpcomingASINs: saveASINsFromMap(cfg, upcomingMap, ...)
SaveUpcoming(p) ==
    /\ inv[p].pc = "saveUpcoming"
    /\ \E ok \in BOOLEAN :
        LET st == IF ok
                  THEN [inv[p] EXCEPT !.pc = StepAfter("saveUpcoming"),
                                      !.trace = Append(@, "upcoming")]
                  ELSE Fail(inv[p], "failed to save upcoming ASINs")
        IN /\ inv' = [inv EXCEPT ![p] = st]
           /\ s3' = IF ok
                    THEN [s3 EXCEPT !.upcoming = saveASINsFromMap(inv[p].upcomingMap)]
                    ELSE s3
           /\ lastPass' = NoteEnd(lastPass, p, st)
    /\ UNCHANGED <<overlap, slotVars, retryVars, saleVars, paperVars>>

\* the end of processCore: when shouldSkip has moved the author's
\* LatestReleaseDate, the authors file is written again (same authors, same
\* length: its content is not part of the model) and the gist is updated
SaveAuthors(p) ==
    /\ inv[p].pc = "saveAuthors"
    /\ \E changed \in BOOLEAN, ok \in BOOLEAN :
        LET st == IF ~changed THEN [inv[p] EXCEPT !.pc = StepAfter("saveAuthors")]
                  ELSE IF ok
                  THEN [inv[p] EXCEPT !.pc = StepAfter("saveAuthors"),
                                      !.trace = Append(@, "authors")]
                  ELSE Fail(inv[p], "failed to save authors")
        IN inv' = [inv EXCEPT ![p] = st] /\ lastPass' = NoteEnd(lastPass, p, st)
    /\ UNCHANGED <<s3, overlap, slotVars, retryVars, saleVars, paperVars>>

\* the invocation is cut short where it stands (timeout of the function, crash)
Cancel(p) ==
    /\ InFlight(inv[p])
    /\ inv' = [inv EXCEPT ![p].pc = "cancelled"]
    /\ lastPass' = NoteEnd(lastPass, p, inv'[p])
    /\ UNCHANGED <<s3, overlap, slotVars, retryVars, saleVars, paperVars>>

\* the invocation is over; the next trigger starts a fresh one
Return(p) ==
    /\ inv[p].pc \in TerminalPcs
    /\ inv' = [inv EXCEPT ![p] = IdleInv]
    /\ lastPass' = IF lastPass.by = p THEN [lastPass EXCEPT !.by = 0] ELSE lastPass
    /\ UNCHANGED <<s3, overlap, slotVars, retryVars, saleVars, paperVars>>

\* a second passes
GateTick ==
    /\ now < MaxGateNow
    /\ now' = now + 1
    /\ UNCHANGED <<itemCount, cycleUnits, slot, retryVars, checkerVars, saleVars, paperVars>>

\* the steps of an invocation past its start
RunStep(p) ==
    \/ PutCursor(p) \/ FetchNotified(p) \/ Lookup(p)
    \/ SaveNotified(p) \/ FetchUpcoming(p) \/ SaveUpcoming(p) \/ SaveAuthors(p)
    \/ Cancel(p)

\* triggers far enough apart: one invocation at a time
GateNext == Gate(1) \/ RunStep(1) \/ Return(1) \/ GateTick

GateSpec == GateInit /\ [][GateNext]_vars

\* two triggers close together inside one window: each invocation runs once
RaceInit ==
    /\ itemCount \in 1..MaxAuthors
    /\ cycleUnits = 4
    /\ now \in 0..1
    /\ slot = IdleSlot
    /\ RetryUnused
    /\ s3 \in {[EmptyBucket EXCEPT !.prevIndex = c] : c \in InitialCursors(itemCount)}
    /\ inv = [p \in Invocations |-> IdleInv]
    /\ lastPass = NoPass
    /\ overlap = FALSE
    /\ SaleUnused
    /\ PaperUnused

RaceNext == \E p \in Invocations : Gate(p) \/ RunStep(p)

RaceSpec == RaceInit /\ [][RaceNext]_vars

\* ====================================================== cursor gate claims
GateErrors ==
    {"failed to fetch authors", "no items available", "failed to fetch prev_index"}

\* the invocation has read the cursor and compared it with its fresh index
Compared(st) == st.pc \notin {"idle", "panic"} /\ st.err \notin GateErrors

NoDup(seq) == \A i, j \in DOMAIN seq : i # j => seq[i] # seq[j]

\* C13: when the previous index read from the cursor equals the fresh due
\* index, the run ends there without error: it has written neither the cursor
\* nor a collection, made no lookup and sent no notification.
C13_NotMySlotIsNoOp ==
    \A p \in Invocations :
        (Compared(inv[p]) /\ Atoi(inv[p].prev) = inv[p].index) =>
            /\ inv[p].pc = "skipped"
            /\ inv[p].trace = <<>>
            /\ inv[p].err = ""
            /\ s3.prevIndex = inv[p].prev

C13_Witness ==
    /\ inv[1].pc = "skipped" /\ inv[1].prev = Itoa(1) /\ inv[1].index = 1
    /\ lastPass.set /\ lastPass.wrote

\* C14: whatever a run does, its write of the cursor comes first; a run
\* whose cursor write failed has stopped without doing anything; and once a
\* run has written the cursor, the cursor holds the run's index through its
\* processing and after its failure or its cancellation.
C14_CursorFirst ==
    \A p \in Invocations :
        /\ inv[p].trace # <<>> => inv[p].trace[1] = "cursor"
        /\ inv[p].err = "failed to put prev_index" =>
               inv[p].pc = "failed" /\ inv[p].trace = <<>>
        /\ (~overlap /\ Wrote(inv[p], "cursor")) => s3.prevIndex = Itoa(inv[p].index)

C14_Witness ==
    /\ inv[1].pc = "failed" /\ inv[1].err = "search failed"
    /\ inv[1].trace = <<"cursor", "lookup">>
    /\ s3.prevIndex = Itoa(inv[1].index) /\ inv[1].prev # s3.prevIndex

\* C15 (as claimed): a run that was let through the gate and is then cut
\* short leaves the cursor as it was before the run.
C15_CancelKeepsCursor ==
    \A p \in Invocations :
        (inv[p].pc = "cancelled" /\ ~overlap) => s3.prevIndex = inv[p].prev

\* C15 (amended): a run cut short leaves the cursor as it was before the run
\* only if it is cut before its cursor write, and then it has done nothing;
\* cut at any later point it leaves the cursor at its new index, which
\* differs from what the cursor held before the run.
C15_CancelAfterCursorWrite ==
    \A p \in Invocations :
        (inv[p].pc = "cancelled" /\ ~overlap) =>
            IF inv[p].trace = <<>>
            THEN s3.prevIndex = inv[p].prev
            ELSE /\ Wrote(inv[p], "cursor")
                 /\ s3.prevIndex = Itoa(inv[p].index)
                 /\ s3.prevIndex # inv[p].prev

C15_Witness ==
    /\ inv[1].pc = "cancelled" /\ ~overlap
    /\ inv[1].trace = <<"cursor", "lookup", "notify">>
    /\ s3.prevIndex = Itoa(inv[1].index) /\ s3.prevIndex # inv[1].prev
    /\ s3.notified = <<>>

BothRan == inv[2].raced /\ inv[1].pc = "done" /\ inv[2].pc = "done"

\* C17: when two invocations read the cursor in the same window before
\* either writes it and both run to their end, each has done each step at
\* most once, the cursor holds the window's index, and the notified and
\* upcoming lists have no duplicate and hold every book that either run, as a
\* single run, would have written (the books it found new and announced).
C17_RaceIsDuplicateProcessing ==
    BothRan =>
        /\ \A p \in Invocations : NoDup(inv[p].trace) /\ inv[p].index = inv[1].index
        /\ s3.prevIndex = Itoa(inv[1].index)
        /\ NoDup(s3.notified) /\ NoDup(s3.upcoming)
        /\ \A p \in Invocations :
               /\ inv[p].found \subseteq MapOf(s3.notified)
               /\ inv[p].found \subseteq MapOf(s3.upcoming)

\* C18: with an empty collection ProcessSlot returns an error and
\* shouldProcess = false; the run ends with that error and has written
\* nothing, looked nothing up and notified nothing.
C18_EmptyIsError ==
    itemCount = 0 =>
        /\ \A get \in {[ok |-> o, body |-> s3.prevIndex] : o \in BOOLEAN} :
               LET ps == ProcessSlot(itemCount, cycleUnits, now, get)
               IN ps.err = "no items available" /\ ~ps.shouldProcess
        /\ \A p \in Invocations :
               /\ inv[p].pc \in {"idle", "failed"}
               /\ inv[p].pc = "failed" =>
                      inv[p].err \in {"no items available", "failed to fetch authors"}
               /\ inv[p].trace = <<>>
        /\ s3.notified = <<>> /\ s3.upcoming = <<>>

C18_Witness ==
    /\ itemCount = 0 /\ inv[1].pc = "failed" /\ inv[1].err = "no items available"
    /\ inv[1].trace = <<>>

\* ---------------------------------------------------------------------
\* sale-checker: every run looks up one segment of the unprocessed list,
\* the segment after the one the previous run handled (cmd/sale-checker)
\* ---------------------------------------------------------------------

\* the number of books one run looks up
SegmentSize == 10

\* how often in one behaviour the API answers other than before: a book that
\* the lookups remove from the list, or a book with another release date
MaxDisturbances == 1

\* the prices the API reports are 0..MaxPrice, and it reports a changed price
\* only for the books of a list of at most MaxPricedBooks books
MaxPrice == 2
MaxPricedBooks == 1

min(a, b) == IF a < b THEN a ELSE b
max(a, b) == IF a > b THEN a ELSE b

\* the unprocessed list that earlier runs saved: n books, latest release first
InitialBooks(n) ==
    [i \in 1..n |-> [asin |-> i, date |-> InitialDate(i), price |-> 1, maxPrice |-> 1]]

\* release dates before and after every date of InitialDate
OldestDate == InitialDate(MaxBooks + 1) - 1
NewestDate == InitialDate(1) + 1

KeepAllASINs(books) == books

\* UniqueASINs keeps the first book of every ASIN
RECURSIVE UniqueASINs(_)
UniqueASINs(books) ==
    IF books = <<>> THEN <<>>
    ELSE LET result == UniqueASINs(SubSeq(books, 1, Len(books) - 1))
             book == books[Len(books)]
         IN IF \E k \in DOMAIN result : result[k].asin = book.asin
            THEN result ELSE Append(result, book)

\* the order of SortByReleaseDate: later release first, then by title (a book's
\* title stands in the order of its ASIN)
ReleasedBefore(x, y) == x.date > y.date \/ (x.date = y.date /\ x.asin < y.asin)

RECURSIVE InsertByReleaseDate(_, _)
InsertByReleaseDate(book, sorted) ==
    IF sorted = <<>> \/ ~ReleasedBefore(Head(sorted), book)
    THEN <<book>> \o sorted
    ELSE <<Head(sorted)>> \o InsertByReleaseDate(book, Tail(sorted))

RECURSIVE SortByReleaseDate(_)
SortByReleaseDate(books) ==
    IF books = <<>> THEN <<>>
    ELSE InsertByReleaseDate(Head(books), SortByReleaseDate(Tail(books)))

MakeBookAtPrice(asin, api, maxPrice) ==
    [asin |-> asin, date |-> api[asin].date, price |-> api[asin].price,
     maxPrice |-> api[asin].price]

\* MakeBook takes the book's data, its release date among them, from the item
\* the API returned: the price is the current and the maximum price, and a
\* maximum price given by the caller replaces it when it is positive
MakeBook(asin, api, maxPrice) ==
    [asin |-> asin, date |-> api[asin].date, price |-> api[asin].price,
     maxPrice |-> IF maxPrice > 0 THEN maxPrice ELSE api[asin].price]

\* the cursor object does not exist (GetS3Object fails)
Missing == [text |-> "missing", n |-> 0]

\* fmt.Sscanf(data, "%d"): a missing object or no number reads as 0; a stored
\* number is returned as it is, negative or not
getLastProcessedIndex(get) ==
    IF ~get.ok THEN 0
    ELSE IF get.body.text = "decimal" THEN get.body.n ELSE 0

getNextProcessingSegmentPastEnd(books, get) ==
    IF Len(books) = 0 THEN [panic |-> FALSE, read |-> 0, startIndex |-> 0, endIndex |-> 0]
    ELSE LET last == getLastProcessedIndex(get)
             startIndex == IF last > Len(books) THEN 0 ELSE last
             endIndex == min(startIndex + SegmentSize, Len(books))
         IN [panic |-> startIndex < 0 \/ startIndex > endIndex,
             read |-> last, startIndex |-> startIndex, endIndex |-> endIndex]

getNextProcessingSegmentToEnd(books, get) ==
    IF Len(books) = 0 THEN [panic |-> FALSE, read |-> 0, startIndex |-> 0, endIndex |-> 0]
    ELSE LET last == getLastProcessedIndex(get)
             startIndex == IF last >= Len(books) THEN 0 ELSE last
             endIndex == Len(books)
         IN [panic |-> startIndex < 0 \/ startIndex > endIndex,
             read |-> last, startIndex |-> startIndex, endIndex |-> endIndex]

\* a start index past the list is reset to 0; books[startIndex:endIndex]
\* panics when startIndex is negative
getNextProcessingSegment(books, get) ==
    IF Len(books) = 0 THEN [panic |-> FALSE, read |-> 0, startIndex |-> 0, endIndex |-> 0]
    ELSE LET last == getLastProcessedIndex(get)
             startIndex == IF last >= Len(books) THEN 0 ELSE last
             endIndex == min(startIndex + SegmentSize, Len(books))
         IN [panic |-> startIndex < 0 \/ startIndex > endIndex,
             read |-> last, startIndex |-> startIndex, endIndex |-> endIndex]

\* what the API answers for the books of a segment: every book is updated, or
\* one of them (the first or the last) is answered otherwise: without a price,
\* on sale (or as a book that is not a Kindle book), or not at all
SaleAnswers ==
    {[odd |-> "none", kind |-> "updated"],
     [odd |-> "first", kind |-> "noPrice"],
     [odd |-> "last", kind |-> "sale"],
     [odd |-> "first", kind |-> "missing"],
     [odd |-> "last", kind |-> "missing"]}

\* the answers after which checkBooksForSales does not return the book: it is
\* on sale or not a Kindle book (both are announced), or the answer lacks it
DroppedKinds == {"sale", "missing"}

OddPosition(segmentBooks, ans) ==
    IF ans.odd = "first" THEN 1
    ELSE IF ans.odd = "last" THEN Len(segmentBooks) ELSE 0

checkBooksForSales(segmentBooks, ans, api) ==
    LET odd == OddPosition(segmentBooks, ans)
        made == [k \in DOMAIN segmentBooks |->
                    IF k = odd /\ ans.kind = "noPrice" THEN segmentBooks[k]
                    ELSE MakeBook(segmentBooks[k].asin, api,
                                  max(segmentBooks[k].maxPrice,
                                      api[segmentBooks[k].asin].price))]
    IN IF odd \in DOMAIN segmentBooks /\ ans.kind \in DroppedKinds
       THEN SubSeq(made, 1, odd - 1) \o SubSeq(made, odd + 1, Len(made))
       ELSE made

\* the books of the segment that checkBooksForSales did not return
droppedBooks(segmentBooks, ans, startIndex) ==
    LET odd == OddPosition(segmentBooks, ans)
    IN IF odd \in DOMAIN segmentBooks /\ ans.kind \in DroppedKinds
       THEN <<[index |-> startIndex + odd - 1, book |-> segmentBooks[odd],
               kind |-> ans.kind]>>
       ELSE <<>>

\* the ASINs of the items of the GetItems answer
responseItems(segmentBooks, ans) ==
    LET odd == OddPosition(segmentBooks, ans)
        asins == [k \in DOMAIN segmentBooks |-> segmentBooks[k].asin]
    IN IF odd \in DOMAIN segmentBooks /\ ans.kind = "missing"
       THEN SubSeq(asins, 1, odd - 1) \o SubSeq(asins, odd + 1, Len(asins))
       ELSE asins

\* checkMissingASINs: nothing when the answer has as many items as books were
\* requested; otherwise an alert for every requested book whose ASIN is not
\* among the items (the ASINs alerted)
checkMissingASINsSilent(requestedBooks, items) == {}
checkMissingASINs(requestedBooks, items) ==
    IF Len(requestedBooks) = Len(items) THEN {}
    ELSE {requestedBooks[k].asin :
              k \in {i \in DOMAIN requestedBooks :
                         \A j \in DOMAIN items : items[j] # requestedBooks[i].asin}}

replaceProcessedSegmentWithoutRest(allBooks, processedBooks, startIndex, endIndex) ==
    SubSeq(allBooks, 1, startIndex) \o processedBooks

replaceProcessedSegment(allBooks, processedBooks, startIndex, endIndex) ==
    SubSeq(allBooks, 1, startIndex) \o processedBooks \o
    SubSeq(allBooks, endIndex + 1, Len(allBooks))

\* the cursor a run saves
nextIndexAtEnd(startIndex, endIndex, processedBooks) == endIndex
nextIndexInSegment(startIndex, endIndex, processedBooks) == Len(processedBooks)
nextIndex(startIndex, endIndex, processedBooks) == startIndex + Len(processedBooks)

\* what a run does after the lookups: it saves the cursor and, unless the
\* merged list equals the list it fetched, logs the changes, saves the list,
\* updates the gist and clears the upcoming list
afterLookupsAlways(unchanged) == <<"cursor", "log", "list", "gist", "clear">>
afterLookups(unchanged) ==
    IF unchanged THEN <<"cursor">> ELSE <<"cursor", "log", "list", "gist", "clear">>

\* what a run does when checkBooksForSales returns the error of GetItems
\* (with the books of the segment): it returns the error at once
onLookupErrorSaveCursor == <<"cursor">>
onLookupError == <<>>

\* where a run of process can end with an error
SaleStops == {"none", "fetch", "lookup", "cursor", "list", "gist", "clear"}

SaleError(stop) ==
    IF stop = "fetch" THEN "failed to fetch unprocessed ASINs"
    ELSE IF stop = "lookup" THEN "PA API processing failed"
    ELSE IF stop = "cursor" THEN "failed to save progress index"
    ELSE IF stop = "list" THEN "failed to save unprocessed ASINs"
    ELSE IF stop = "gist" THEN "error update gist"
    ELSE "failed to clear upcoming books"

\* the steps done before the step that fails
DoneBefore(steps, stop) ==
    IF \E k \in DOMAIN steps : steps[k] = stop
    THEN SubSeq(steps, 1, (CHOOSE k \in DOMAIN steps : steps[k] = stop) - 1)
    ELSE steps

Did(st, step) == \E k \in DOMAIN st.trace : st.trace[k] = step

AsinsOf(books) == {books[k].asin : k \in DOMAIN books}

\* the sizes of the stored list: none, one book, one full segment and more
SaleBookCounts == {0, 1, SegmentSize, SegmentSize + 1, MaxBooks}

\* the first book as the upcoming list holds it
UpcomingDuplicate == [asin |-> 1, date |-> InitialDate(1), price |-> 0, maxPrice |-> 0]

\* the upcoming list the other checkers left: empty or, beside a list of more
\* than one segment, a new book released on the day of the first book, or a
\* book that is in the unprocessed list too (with the data of another lookup)
SaleUpcomings(n) ==
    IF n # SegmentSize + 1 THEN {<<>>}
    ELSE {<<>>,
          <<[asin |-> n + 1, date |-> InitialDate(1), price |-> 2, maxPrice |-> 2]>>,
          <<UpcomingDuplicate>>}

\* how often the API has answered other than before
Disturbances ==
    sale.removed + (IF \A a \in BookAsins : remote[a].date = InitialDate(a) THEN 0 ELSE 1)

\* what is remembered of the runs while all of them were complete: which books
\* were handled since the latest run that started at 0
NoHistory(st) ==
    [st EXCEPT !.clean = FALSE, !.wrapped = FALSE,
               !.visits = [a \in BookAsins |-> 0],
               !.lastWrap = [a \in BookAsins |-> 0]]

\* stored cursors: what a run wrote (0..n), and what the object can hold
\* otherwise: a negative number, a number past the list, no number, or no
\* object at all
InitialSaleCursors(n) ==
    {Unparseable, Missing} \cup {Itoa(k) : k \in {0 - 1, 0, n, n + SegmentSize}}

SaleInit ==
    /\ RetryUnused
    /\ itemCount = 1 /\ cycleUnits = 1 /\ now = 0 /\ slot = IdleSlot
    /\ inv = [p \in Invocations |-> IdleInv]
    /\ lastPass = NoPass
    /\ overlap = FALSE
    /\ PaperUnused
    /\ remote = InitialRemote
    /\ clearing = IdleClearing
    /\ \E n \in SaleBookCounts : \E c \in InitialSaleCursors(n) :
       \E up \in SaleUpcomings(n) :
           /\ s3 = [EmptyBucket EXCEPT !.salePrevIndex = c,
                                       !.unprocessed = InitialBooks(n),
                                       !.upcoming = up]
           /\ sale = [IdleSale EXCEPT !.clean = (c = Itoa(0) /\ up = <<>>)]

\* one run of process (the lists it works on are each computed once)
SaleRun ==
    \E ans \in SaleAnswers, stop \in SaleStops :
    \E allBooks \in {UniqueASINs(s3.unprocessed \o s3.upcoming)} :
    \E seg \in {getNextProcessingSegment(allBooks,
                    [ok |-> s3.salePrevIndex # Missing, body |-> s3.salePrevIndex])} :
    \E segmentBooks \in {IF seg.panic THEN <<>>
                          ELSE SubSeq(allBooks, seg.startIndex + 1, seg.endIndex)} :
    \E processedBooks \in {checkBooksForSales(segmentBooks, ans, remote)} :
    \E updatedBooks \in
           {IF seg.panic THEN <<>>
            ELSE SortByReleaseDate(replaceProcessedSegment(allBooks, processedBooks,
                                                           seg.startIndex, seg.endIndex))} :
        LET originalBooks == s3.unprocessed
            removed == Len(segmentBooks) - Len(processedBooks)
            unchanged == originalBooks = updatedBooks
            steps == afterLookups(unchanged)
            done == DoneBefore(steps, stop)
            did(step) == \E k \in DOMAIN done : done[k] = step
            ranBefore == sale.pc # "idle"
            due == IF ~ranBefore \/ sale.endIndex >= sale.n THEN 0 ELSE sale.endIndex
            selected == [sale EXCEPT !.n = Len(allBooks), !.read = seg.read,
                                     !.startIndex = seg.startIndex,
                                     !.endIndex = seg.endIndex,
                                     !.due = due, !.count = 0,
                                     !.processed = <<>>, !.dropped = <<>>,
                                     !.unchanged = FALSE, !.trace = <<>>,
                                     !.requested = AsinsOf(segmentBooks),
                                     !.response = {}, !.alerts = {}]
            items == responseItems(segmentBooks, ans)
            handled == AsinsOf(segmentBooks)
            complete == sale.clean /\ removed = 0 /\ done = steps
            lookedUp ==
                [selected EXCEPT
                    !.count = Len(processedBooks),
                    !.processed = processedBooks,
                    !.dropped = droppedBooks(segmentBooks, ans, seg.startIndex),
                    !.unchanged = unchanged,
                    !.trace = done,
                    !.response = {items[k] : k \in DOMAIN items},
                    !.alerts = checkMissingASINs(segmentBooks, items),
                    !.pc = IF done = steps THEN "done" ELSE "failed",
                    !.err = IF done = steps THEN "" ELSE SaleError(stop),
                    !.removed = sale.removed + removed,
                    !.wrapped = sale.wrapped \/ (ranBefore /\ seg.startIndex = 0),
                    !.lastWrap = IF ranBefore /\ seg.startIndex = 0
                                 THEN sale.visits ELSE sale.lastWrap,
                    !.visits = [a \in BookAsins |->
                                   (IF seg.startIndex = 0 THEN 0 ELSE sale.visits[a])
                                   + (IF a \in handled THEN 1 ELSE 0)]]
        IN
        IF stop = "fetch"
        THEN /\ sale' = NoHistory([sale EXCEPT !.pc = "failed", !.err = SaleError(stop),
                                               !.trace = <<>>])
             /\ UNCHANGED s3
        ELSE IF seg.panic
        THEN /\ sale' = NoHistory([selected EXCEPT !.pc = "panic",
                                                   !.err = "slice bounds out of range"])
             /\ UNCHANGED s3
        ELSE IF stop = "lookup"
        THEN /\ sale' = NoHistory([selected EXCEPT !.pc = "failed", !.err = SaleError(stop),
                                                   !.trace = onLookupError])
             /\ s3' = [s3 EXCEPT
                         !.salePrevIndex =
                             IF \E k \in DOMAIN onLookupError : onLookupError[k] = "cursor"
                             THEN Itoa(nextIndex(seg.startIndex, seg.endIndex, segmentBooks))
                             ELSE @]
        ELSE
        /\ removed > 0 => Disturbances + removed <= MaxDisturbances
        /\ sale' = IF complete THEN lookedUp ELSE NoHistory(lookedUp)
        /\ s3' = [s3 EXCEPT
                    !.salePrevIndex =
                        IF did("cursor")
                        THEN Itoa(nextIndex(seg.startIndex, seg.endIndex, processedBooks))
                        ELSE @,
                    !.unprocessed = IF did("list") THEN updatedBooks ELSE @,
                    !.upcoming = IF did("clear") THEN <<>> ELSE @]

\* the API starts to report another release date for the first or the last
\* book of the list: one before or one after the dates of all other books
Reschedule ==
    /\ \A a \in BookAsins : remote[a].date = InitialDate(a)
    /\ Disturbances < MaxDisturbances
    /\ Len(s3.unprocessed) > 0
    /\ \/ remote' = [remote EXCEPT ![s3.unprocessed[1].asin].date = OldestDate]
       \/ remote' = [remote EXCEPT
                        ![s3.unprocessed[Len(s3.unprocessed)].asin].date = NewestDate]
    /\ UNCHANGED sale
    /\ UNCHANGED s3

\* the API starts to report another price for a book of the list
Reprice ==
    /\ Len(s3.unprocessed) \in 1..MaxPricedBooks
    /\ \E a \in AsinsOf(s3.unprocessed), p \in 0..MaxPrice :
           /\ p # remote[a].price
           /\ remote' = [remote EXCEPT ![a].price = p]
    /\ UNCHANGED sale
    /\ UNCHANGED s3

SaleStep == SaleRun /\ remote' = remote

SaleNext ==
    \/ (SaleStep /\ UNCHANGED <<slotVars, retryVars, inv, lastPass, overlap, paperVars, clearing>>)
    \/ (Reschedule /\ UNCHANGED <<slotVars, retryVars, inv, lastPass, overlap, paperVars, clearing>>)
    \/ (Reprice /\ UNCHANGED <<slotVars, retryVars, inv, lastPass, overlap, paperVars, clearing>>)

SaleSpec == SaleInit /\ [][SaleNext]_vars

\* the latest run got as far as choosing its segment
SegmentSelected(st) ==
    st.pc \in {"done", "panic"} \/ (st.pc = "failed" /\ st.err # SaleError("fetch"))

\* C19: for a non-empty list of n books and any stored cursor (any integer,
\* negative or >= n, a missing or an unparseable value), the run starts at an
\* index in [0, n), at 0 when the stored value is outside [0, n), and its
\* segment is [start, min(start + SegmentSize, n)).
C19_StartIsClamped ==
    SegmentSelected(sale) /\ sale.n > 0 =>
        /\ sale.pc # "panic"
        /\ sale.startIndex \in 0..(sale.n - 1)
        /\ sale.startIndex = (IF sale.read \in 0..(sale.n - 1) THEN sale.read ELSE 0)
        /\ sale.endIndex = min(sale.startIndex + SegmentSize, sale.n)

\* C20: from cursor 0, over runs in which every step and every lookup succeeds
\* and no book is removed, each run handles the segment that follows the
\* segment of the run before it ([0, w), [w, 2w), ..., then [0, w) again), and
\* between two consecutive runs that start at 0 every book of the list has been
\* handled exactly once.
C20_EachBookOncePerWrap ==
    sale.clean /\ sale.pc = "done" =>
        /\ sale.startIndex = sale.due
        /\ sale.endIndex = min(sale.startIndex + SegmentSize, sale.n)
        /\ sale.count = sale.endIndex - sale.startIndex
        /\ sale.wrapped => \A a \in AsinsOf(s3.unprocessed) : sale.lastWrap[a] = 1

\* the latest run looked its segment up
LookedUp(st) ==
    st.pc = "done" \/ (st.pc = "failed" /\ st.err \notin {SaleError("fetch"), SaleError("lookup")})

\* C21: the cursor a run saves is its start plus the number of books of its
\* segment that were processed (returned by checkBooksForSales: updated, or
\* kept for lack of a price), not the end of the segment; it is smaller than
\* the end exactly when a book of the segment was not processed.
C21_CursorCountsProcessed ==
    Did(sale, "cursor") =>
        /\ s3.salePrevIndex =
               Itoa(sale.startIndex + (sale.endIndex - sale.startIndex) - Len(sale.dropped))
        /\ sale.count = (sale.endIndex - sale.startIndex) - Len(sale.dropped)
        /\ (Len(sale.dropped) > 0) <=> (s3.salePrevIndex.n < sale.endIndex)

C21_Witness ==
    /\ Did(sale, "cursor") /\ Len(sale.dropped) = 1 /\ sale.dropped[1].kind = "missing"
    /\ sale.endIndex - sale.startIndex = SegmentSize
    /\ s3.salePrevIndex = Itoa(sale.endIndex - 1)

\* C22: a book of the segment that the answer of the lookup lacks is still in
\* the list the run saves, with its values and at its place, and it lies in
\* the segment of the next run.
C22_FailedItemsKept ==
    sale.pc = "done" =>
        \A k \in DOMAIN sale.dropped :
            sale.dropped[k].kind = "missing" =>
                LET at == sale.dropped[k].index
                IN /\ at + 1 \in DOMAIN s3.unprocessed
                   /\ s3.unprocessed[at + 1] = sale.dropped[k].book
                   /\ s3.salePrevIndex.n <= at
                   /\ at < s3.salePrevIndex.n + SegmentSize

\* C23: a run that finds a cursor >= n starts at 0; with 25 books and cursor
\* 20 the run handles [20, 25), five books, and after full success saves
\* cursor 25, so that the next run starts at 0.
C23_WrapAround ==
    /\ SegmentSelected(sale) /\ sale.read >= sale.n =>
           sale.pc # "panic" /\ sale.startIndex = 0
    /\ sale.pc = "done" /\ sale.n = 25 /\ sale.read = 20 /\ sale.dropped = <<>> =>
           /\ sale.startIndex = 20 /\ sale.endIndex = 25 /\ sale.count = 5
           /\ s3.salePrevIndex = Itoa(25)

C23_Witness ==
    /\ sale.pc = "done" /\ sale.n = 25 /\ sale.read = 25 /\ sale.startIndex = 0
    /\ sale.clean /\ sale.wrapped
    /\ \A a \in 1..25 : sale.lastWrap[a] = 1

C25_MergeFrame ==
    [][ (sale' # sale /\ Did(sale', "list")) =>
            LET allBooks == UniqueASINs(s3.unprocessed \o s3.upcoming)
                outside == {k \in DOMAIN allBooks :
                                k <= sale'.startIndex \/ k > sale'.endIndex}
                saved == s3'.unprocessed
            IN /\ \A k \in outside : \E j \in DOMAIN saved : saved[j] = allBooks[k]
               /\ \A j \in DOMAIN saved :
                      \/ \E k \in outside : saved[j] = allBooks[k]
                      \/ \E k \in DOMAIN sale'.processed : saved[j] = sale'.processed[k]
               /\ Len(saved) = Cardinality(outside) + Len(sale'.processed) ]_vars

C25_Witness ==
    /\ Did(sale, "list") /\ sale.startIndex > 0 /\ sale.endIndex < sale.n
    /\ Len(s3.unprocessed) = sale.n - 1

\* C26: a book that a run substitutes gets as maximum price the larger of its
\* stored maximum price and the price observed; no run lowers the maximum
\* price of a book that stays in the list.
C26_MaxPriceMonotone ==
    [][ \A i \in DOMAIN s3.unprocessed : \A j \in DOMAIN s3'.unprocessed :
            LET old == s3.unprocessed[i]
                new == s3'.unprocessed[j]
            IN old.asin = new.asin =>
                   /\ new.maxPrice >= old.maxPrice
                   /\ new # old => new.maxPrice = max(old.maxPrice, new.price) ]_vars

C26_Witness ==
    /\ Did(sale, "list")
    /\ \E k \in DOMAIN sale.processed :
           /\ sale.processed[k].price = 0 /\ sale.processed[k].maxPrice = 1
           /\ \E j \in DOMAIN s3.unprocessed : s3.unprocessed[j] = sale.processed[k]

\* the list holds no ASIN twice and is in the order of SortByReleaseDate
Canonical(books) ==
    /\ \A i, j \in DOMAIN books : i # j => books[i].asin # books[j].asin
    /\ \A i, j \in DOMAIN books : i < j => ReleasedBefore(books[i], books[j])

C28_SkipIfUnchanged ==
    sale.unchanged =>
        /\ ~Did(sale, "log") /\ ~Did(sale, "list")
        /\ ~Did(sale, "gist") /\ ~Did(sale, "clear")

C28_Witness ==
    /\ sale.pc = "done" /\ sale.unchanged /\ sale.count = SegmentSize
    /\ sale.trace = <<"cursor">>
    /\ s3.upcoming = <<UpcomingDuplicate>>

\* C29: merging the processed books of a run into the list that the run saved,
\* at the same segment, gives that list again.
C29_MergeIdempotent ==
    Did(sale, "list") =>
        SortByReleaseDate(replaceProcessedSegment(UniqueASINs(s3.unprocessed),
                                                  sale.processed,
                                                  sale.startIndex, sale.endIndex))
            = s3.unprocessed

\* ============================= paper-to-kindle-checker: the move of a book
\* (process, getBookToProcess, processCore and savePaperBooksAndUpdateGist of
\* cmd/paper-to-kindle-checker, one action for each request they make)
MaxPaperBooks == 3
MaxPaperRuns == 2

\* isSameKindleBook: the Kindle edition has an ASIN of its own and the release
\* day of the paper book
KindleOf(a) == a + MaxPaperBooks

\* time.Now() of FetchNotifiedASINs: the first book of InitialBooks is released
\* after it, the others are not
PaperNow == InitialDate(2)

\* the stored list of paper books: n books, of which book z was entered
\* without a price (z = 0: none)
InitialPaperBooks(n, z) ==
    [i \in 1..n |-> IF i = z THEN [InitialBooks(n)[i] EXCEPT !.price = 0, !.maxPrice = 0]
                             ELSE InitialBooks(n)[i]]

\* a Kindle edition notified before: of a book that has since been released,
\* or of one that has not
NotifiedBefore(released) ==
    [asin |-> 2 * MaxPaperBooks + 1,
     date |-> IF released THEN PaperNow ELSE PaperNow + 1,
     price |-> 1, maxPrice |-> 1]

\* the Kindle edition of the first book, as an earlier run stored it
StoredKindle == [asin |-> KindleOf(1), date |-> InitialDate(1), price |-> 1, maxPrice |-> 1]

\* saveASINsFromMap for maps of books: the list of the map's values, sorted
RECURSIVE saveBooksFromMap(_)
saveBooksFromMap(m) ==
    IF m = {} THEN <<>>
    ELSE LET b == CHOOSE x \in m : TRUE
         IN InsertByReleaseDate(b, saveBooksFromMap(m \ {b}))

\* m[b.ASIN] = b
PutBook(m, b) == {x \in m : x.asin # b.asin} \cup {b}

\* FetchNotifiedASINs: the stored books released after now, by ASIN
FetchNotifiedASINs(list, t) == {list[k] : k \in {i \in DOMAIN list : list[i].date > t}}

\* updateUpcomingASINs: every stored book replaces the map's book of its ASIN
updateUpcomingASINs(upcomingMap, currentUpcoming) ==
    {x \in upcomingMap : x.asin \notin AsinsOf(currentUpcoming)}
        \cup {currentUpcoming[k] : k \in DOMAIN currentUpcoming}

\* for i, b := range books { if i != index { append } }
withoutIndex(books, index) ==
    SubSeq(books, 1, index) \o SubSeq(books, index + 2, Len(books))

\* savePaperBooksAndUpdateGist up to savePaperBooks
paperBooksToSave(books) == SortByReleaseDate(UniqueASINs(books))

\* the order of the requests of processCore once a Kindle edition is found:
\* the notified list, the upcoming list, then the paper list and its gist
moveStepsSourceFirst ==
    <<"savePaper", "gist", "fetchNotified", "saveNotified", "fetchUpcoming", "saveUpcoming">>
moveSteps ==
    <<"fetchNotified", "saveNotified", "fetchUpcoming", "saveUpcoming", "savePaper", "gist">>

MoveStepAfter(step) ==
    LET i == CHOOSE k \in DOMAIN moveSteps : moveSteps[k] = step
    IN IF i = Len(moveSteps) THEN "done" ELSE moveSteps[i + 1]

PaperInFlight ==
    {"cursor", "getItems", "savePaperFirst", "gistFirst", "search"}
        \cup {moveSteps[k] : k \in DOMAIN moveSteps}
PaperTerminal == {"idle", "done", "skipped", "failed", "crashed"}

PaperFail(st, msg) == [st EXCEPT !.pc = "failed", !.err = msg]

\* the errors of the requests that write the notified and the upcoming list
DestinationErrors ==
    {"failed to fetch notified ASINs", "failed to save notified ASINs",
     "failed to fetch upcoming ASINs", "failed to save upcoming ASINs"}

PaperInit ==
    /\ RetryUnused
    /\ itemCount = 1 /\ cycleUnits = 1 /\ now = 0 /\ slot = IdleSlot
    /\ inv = [p \in Invocations |-> IdleInv]
    /\ lastPass = NoPass
    /\ overlap = FALSE
    /\ SaleUnused
    /\ paper = IdlePaper
    /\ cleaning = IdleCleaning
    /\ \E n \in 0..MaxPaperBooks :
       \E z \in 0..min(n, 1) :
       \E c \in {Unparseable, Itoa(0)} :
       \E notified \in {<<>>, <<NotifiedBefore(TRUE)>>, <<NotifiedBefore(FALSE)>>} :
       \E upcoming \in {<<>>, <<StoredKindle>>} :
           s3 = [EmptyBucket EXCEPT !.paperBooks = InitialPaperBooks(n, z),
                                    !.paperPrevIndex = c,
                                    !.notified = notified,
                                    !.upcoming = upcoming]

\* process up to the return of getBookToProcess: fetchPaperBooks and
\* ProcessSlot, whose index is any index of the list (getIndexByTime)
PaperStart ==
    /\ paper.pc \in PaperTerminal
    /\ paper.runs < MaxPaperRuns
    /\ \E fetched \in BOOLEAN, got \in BOOLEAN, index \in 0..MaxPaperBooks :
        /\ index < max(Len(s3.paperBooks), 1)
        /\ LET st == [IdlePaper EXCEPT !.runs = paper.runs + 1,
                                       !.known = paper.known]
           IN paper' =
                IF ~fetched THEN PaperFail(st, "failed to fetch paper books")
                ELSE IF Len(s3.paperBooks) = 0 THEN PaperFail(st, "no items available")
                ELSE IF ~got THEN PaperFail(st, "failed to fetch prev_index")
                ELSE IF Atoi(s3.paperPrevIndex) = index THEN [st EXCEPT !.pc = "skipped"]
                ELSE [st EXCEPT !.pc = "cursor",
                                !.index = index,
                                !.asin = s3.paperBooks[index + 1].asin,
                                !.books = s3.paperBooks,
                                !.known = @ \cup AsinsOf(s3.paperBooks)]
    /\ UNCHANGED s3

\* process: PutS3Object(cfg, strconv.Itoa(index), ...), then processCore up to
\* its first request
PaperCursor ==
    /\ paper.pc = "cursor"
    /\ \E ok \in BOOLEAN :
        IF ok
        THEN /\ s3' = [s3 EXCEPT !.paperPrevIndex = cursorBody(paper.index)]
             /\ paper' = [paper EXCEPT
                    !.pc = IF paper.books[paper.index + 1].price = 0
                           THEN "getItems" ELSE "search",
                    !.trace = Append(@, "cursor")]
        ELSE /\ s3' = s3
             /\ paper' = PaperFail(paper, "failed to put prev_index")

\* processCore, book.CurrentPrice == 0: GetItems and *book = MakeBook(item, 0)
PaperGetItems ==
    /\ paper.pc = "getItems"
    /\ \E ans \in {"error", "none", "notComic", "item"},
          date \in {InitialDate(paper.asin), OldestDate} :
        paper' =
            IF ans = "error" THEN PaperFail(paper, "getItems")
            ELSE IF ans = "none" THEN [paper EXCEPT !.pc = "done"]
            ELSE IF ans = "notComic" THEN PaperFail(paper, "the item category is not a comic")
            ELSE [paper EXCEPT
                    !.pc = "savePaperFirst",
                    !.books[paper.index + 1] =
                        MakeBook(paper.asin,
                                 [a \in {paper.asin} |-> [date |-> date, price |-> 1]], 0)]
    /\ UNCHANGED s3

\* savePaperBooksAndUpdateGist(cfg, books, ...) after GetItems: savePaperBooks
PaperSaveFirst ==
    /\ paper.pc = "savePaperFirst"
    /\ \E ok \in BOOLEAN :
        IF ok
        THEN /\ s3' = [s3 EXCEPT !.paperBooks = paperBooksToSave(paper.books)]
             /\ paper' = [paper EXCEPT !.pc = "gistFirst",
                                       !.trace = Append(@, "paperFirst")]
        ELSE /\ s3' = s3
             /\ paper' = PaperFail(paper, "failed to save paper books")

\* ... and UpdateBookGist
PaperGistFirst ==
    /\ paper.pc = "gistFirst"
    /\ \E ok \in BOOLEAN :
        paper' = IF ok THEN [paper EXCEPT !.pc = "search",
                                          !.trace = Append(@, "gistFirst")]
                 ELSE PaperFail(paper, "failed to update gist")
    /\ UNCHANGED s3

\* searchKindleEdition, and for a Kindle edition LogAndNotify and
\* b := MakeBook(*kindleItem, book.MaxPrice)
PaperSearch ==
    /\ paper.pc = "search"
    /\ \E ans \in {"error", "empty", "nil", "found"}, price \in 1..MaxPrice :
        LET book == paper.books[paper.index + 1]
            k == KindleOf(paper.asin)
        IN paper' =
            IF ans = "error" THEN PaperFail(paper, "searchKindleEdition")
            ELSE IF ans = "empty" THEN PaperFail(paper, "no search results found")
            ELSE IF ans = "nil" THEN [paper EXCEPT !.pc = "done",
                                                   !.trace = Append(@, "search")]
            ELSE [paper EXCEPT
                    !.pc = moveSteps[1],
                    !.trace = @ \o <<"search", "notify">>,
                    !.stored = s3.paperBooks,
                    !.kindle = MakeBook(k, [a \in {k} |-> [date |-> book.date,
                                                           price |-> price]],
                                        book.maxPrice)]
    /\ UNCHANGED s3

\* utils.FetchNotifiedASINs(cfg, time.Now()); notifiedMap[kindleItem.ASIN] = b;
\* upcomingMap[kindleItem.ASIN] = b
PaperFetchNotified ==
    /\ paper.pc = "fetchNotified"
    /\ \E ok \in BOOLEAN :
        paper' = IF ok
                 THEN [paper EXCEPT
                         !.pc = MoveStepAfter("fetchNotified"),
                         !.notifiedMap =
                             PutBook(FetchNotifiedASINs(s3.notified, PaperNow), paper.kindle),
                         !.upcomingMap = {paper.kindle}]
                 ELSE PaperFail(paper, "failed to fetch notified ASINs")
    /\ UNCHANGED s3

\* utils.SaveNotifiedASINs(cfg, notifiedMap)
PaperSaveNotified ==
    /\ paper.pc = "saveNotified"
    /\ \E ok \in BOOLEAN :
        IF ok
        THEN /\ s3' = [s3 EXCEPT !.notified = saveBooksFromMap(paper.notifiedMap)]
             /\ paper' = [paper EXCEPT !.pc = MoveStepAfter("saveNotified"),
                                       !.trace = Append(@, "notified")]
        ELSE /\ s3' = s3
             /\ paper' = PaperFail(paper, "failed to save notified ASINs")

\* utils.SaveUpcomingASINs(cfg, upcomingMap): FetchASINs of the stored list
PaperFetchUpcoming ==
    /\ paper.pc = "fetchUpcoming"
    /\ \E ok \in BOOLEAN :
        paper' = IF ok
                 THEN [paper EXCEPT
                         !.pc = MoveStepAfter("fetchUpcoming"),
                         !.upcomingMap = updateUpcomingASINs({paper.kindle}, s3.upcoming)]
                 ELSE PaperFail(paper, "failed to fetch upcoming ASINs")
    /\ UNCHANGED s3

\* ... and saveASINsFromMap of the merged map
PaperSaveUpcoming ==
    /\ paper.pc = "saveUpcoming"
    /\ \E ok \in BOOLEAN :
        IF ok
        THEN /\ s3' = [s3 EXCEPT !.upcoming = saveBooksFromMap(paper.upcomingMap)]
             /\ paper' = [paper EXCEPT !.pc = MoveStepAfter("saveUpcoming"),
                                       !.trace = Append(@, "upcoming")]
        ELSE /\ s3' = s3
             /\ paper' = PaperFail(paper, "failed to save upcoming ASINs")

\* savePaperBooksAndUpdateGist(cfg, updatedBooks, ...): savePaperBooks of the
\* books without the one at index
PaperSavePaper ==
    /\ paper.pc = "savePaper"
    /\ \E ok \in BOOLEAN :
        IF ok
        THEN /\ s3' = [s3 EXCEPT !.paperBooks =
                          paperBooksToSave(withoutIndex(paper.books, paper.index))]
             /\ paper' = [paper EXCEPT !.pc = MoveStepAfter("savePaper"),
                                       !.trace = Append(@, "paper")]
        ELSE /\ s3' = s3
             /\ paper' = PaperFail(paper, "failed to save paper books")

\* ... and UpdateBookGist
PaperGist ==
    /\ paper.pc = "gist"
    /\ \E ok \in BOOLEAN :
        paper' = IF ok THEN [paper EXCEPT !.pc = MoveStepAfter("gist"),
                                          !.trace = Append(@, "gist")]
                 ELSE PaperFail(paper, "failed to update gist")
    /\ UNCHANGED s3

\* the process ends between two requests (the Lambda times out or is killed)
PaperCrash ==
    /\ paper.pc \in PaperInFlight
    /\ paper' = [paper EXCEPT !.pc = "crashed"]
    /\ UNCHANGED s3

PaperNext ==
    \/ (PaperStart /\ UNCHANGED <<slotVars, retryVars, inv, lastPass, overlap, saleVars, cleaning>>)
    \/ (PaperCursor /\ UNCHANGED <<slotVars, retryVars, inv, lastPass, overlap, saleVars, cleaning>>)
    \/ (PaperGetItems /\ UNCHANGED <<slotVars, retryVars, inv, lastPass, overlap, saleVars, cleaning>>)
    \/ (PaperSaveFirst /\ UNCHANGED <<slotVars, retryVars, inv, lastPass, overlap, saleVars, cleaning>>)
    \/ (PaperGistFirst /\ UNCHANGED <<slotVars, retryVars, inv, lastPass, overlap, saleVars, cleaning>>)
    \/ (PaperSearch /\ UNCHANGED <<slotVars, retryVars, inv, lastPass, overlap, saleVars, cleaning>>)
    \/ (PaperFetchNotified
            /\ UNCHANGED <<slotVars, retryVars, inv, lastPass, overlap, saleVars, cleaning>>)
    \/ (PaperSaveNotified
            /\ UNCHANGED <<slotVars, retryVars, inv, lastPass, overlap, saleVars, cleaning>>)
    \/ (PaperFetchUpcoming
            /\ UNCHANGED <<slotVars, retryVars, inv, lastPass, overlap, saleVars, cleaning>>)
    \/ (PaperSaveUpcoming
            /\ UNCHANGED <<slotVars, retryVars, inv, lastPass, overlap, saleVars, cleaning>>)
    \/ (PaperSavePaper /\ UNCHANGED <<slotVars, retryVars, inv, lastPass, overlap, saleVars, cleaning>>)
    \/ (PaperGist /\ UNCHANGED <<slotVars, retryVars, inv, lastPass, overlap, saleVars, cleaning>>)
    \/ (PaperCrash /\ UNCHANGED <<slotVars, retryVars, inv, lastPass, overlap, saleVars, cleaning>>)

PaperSpec == PaperInit /\ [][PaperNext]_vars

\* position of a step in the record of a run, 0 when the run has not done it
PaperDid(st, step) ==
    IF \E k \in DOMAIN st.trace : st.trace[k] = step
    THEN CHOOSE k \in DOMAIN st.trace : st.trace[k] = step
    ELSE 0

\* the book is in the paper list, or its Kindle edition is in the notified or
\* in the upcoming list
Held(a) ==
    \/ a \in AsinsOf(s3.paperBooks)
    \/ KindleOf(a) \in AsinsOf(s3.notified)
    \/ KindleOf(a) \in AsinsOf(s3.upcoming)

SegmentNow ==
    getNextProcessingSegment(UniqueASINs(s3.unprocessed \o s3.upcoming),
                             [ok |-> s3.salePrevIndex # Missing, body |-> s3.salePrevIndex])

\* the latest run ended with the error of the lookup of its segment
LookupFailed(st) == st.pc = "failed" /\ st.err = SaleError("lookup")

\* C36: a sale-checker run whose lookup of the segment returns an error writes
\* nothing: the cursor, the unprocessed list and the upcoming list are what
\* they were before the run, and the next run selects the same segment.
C36_LookupErrorWritesNothing ==
    /\ [][ LookupFailed(sale') => s3' = s3 /\ sale'.trace = <<>> ]_vars
    /\ [](LookupFailed(sale) =>
              /\ SegmentNow.startIndex = sale.startIndex
              /\ SegmentNow.endIndex = sale.endIndex)

C36_Witness ==
    /\ LookupFailed(sale) /\ sale.startIndex = SegmentSize /\ sale.endIndex = sale.n
    /\ s3.salePrevIndex = Itoa(SegmentSize)
    /\ Len(s3.unprocessed) = SegmentSize + 1

\* C32: after a lookup that succeeded with fewer items than books requested,
\* every requested book whose ASIN is not among the items has been reported
\* by an alert, and only such books have.
C32_MissingBooksAlerted ==
    LookedUp(sale) /\ Cardinality(sale.response) < Cardinality(sale.requested) =>
        /\ sale.alerts = sale.requested \ sale.response
        /\ \A k \in DOMAIN sale.dropped :
               sale.dropped[k].kind = "missing" => sale.dropped[k].book.asin \in sale.alerts

C32_Witness ==
    /\ LookedUp(sale) /\ Cardinality(sale.requested) = SegmentSize
    /\ Cardinality(sale.response) = SegmentSize - 1
    /\ Cardinality(sale.alerts) = 1

\* C39: the cursor a run saves is an integer c with 0 <= c <= n', n' the
\* length of the list the run's merge gives; in that list, as it is before it
\* is sorted, the books before c are those before the segment and the
\* processed books, and the books from c on are those that followed the
\* segment; no run saves a negative cursor.
C39_CursorInMergedList ==
    [][ (sale' # sale /\ Did(sale', "cursor")) =>
            LET allBooks == UniqueASINs(s3.unprocessed \o s3.upcoming)
                merged == replaceProcessedSegment(allBooks, sale'.processed,
                                                  sale'.startIndex, sale'.endIndex)
                c == s3'.salePrevIndex.n
            IN /\ s3'.salePrevIndex = Itoa(c)
               /\ 0 <= c /\ c <= Len(merged)
               /\ SubSeq(merged, 1, c)
                      = SubSeq(allBooks, 1, sale'.startIndex) \o sale'.processed
               /\ SubSeq(merged, c + 1, Len(merged))
                      = SubSeq(allBooks, sale'.endIndex + 1, Len(allBooks)) ]_vars

C39_Witness ==
    /\ Did(sale, "list") /\ sale.startIndex = SegmentSize /\ sale.endIndex = 2 * SegmentSize
    /\ Len(sale.dropped) = 1
    /\ s3.salePrevIndex = Itoa(2 * SegmentSize - 1)
    /\ Len(s3.unprocessed) = MaxBooks - 1

\* C40: a run that read a cursor object which holds no decimal integer got no
\* error from ProcessSlot and took the previous index to be 0: it is skipped
\* exactly when its fresh index is 0, and it passes the gate otherwise.
C40_UnparseableCursorIsZero ==
    \A p \in Invocations :
        (Compared(inv[p]) /\ inv[p].prev = Unparseable) =>
            /\ (inv[p].pc = "skipped") <=> (inv[p].index = 0)
            /\ inv[p].pc = "skipped" => inv[p].err = "" /\ inv[p].trace = <<>>
            /\ inv[p].index # 0 =>
                   inv[p].pc \in InFlightPcs \cup (TerminalPcs \ {"skipped", "panic"})

C40_Witness ==
    /\ inv[1].pc = "skipped" /\ inv[1].prev = Unparseable /\ inv[1].index = 0
    /\ s3.prevIndex = Unparseable /\ itemCount = MaxAuthors /\ inv[1].err = ""

\* the position whose window precedes that of position index
PreviousIndex(index, count) == (index + count - 1) % count

\* C35: for every n >= 1, the first run in a window, the one that finds the
\* cursor the window before it left, is let through the gate, so that every
\* position is processed in every cycle.
C35_FirstInWindowProceeds ==
    itemCount >= 1 =>
        \A p \in Invocations :
            (Compared(inv[p]) /\ Atoi(inv[p].prev) = PreviousIndex(inv[p].index, itemCount))
                => inv[p].pc # "skipped"

\* every book of the list has a maximum price not below its current price
PriceOk(books) == \A k \in DOMAIN books : books[k].maxPrice >= books[k].price

\* C38: every book a checker writes to a stored list has MaxPrice >=
\* CurrentPrice; for the paper-to-kindle checker: the Kindle edition it puts in
\* the notified and the upcoming list, and the paper books it saves.
C38_MaxPriceAtLeastPrice ==
    /\ PriceOk(s3.notified)
    /\ PriceOk(s3.upcoming)
    /\ PriceOk(s3.paperBooks)

\* the errors of the two lookups of the paper-to-kindle checker
PaperLookupErrors == {"getItems", "searchKindleEdition"}

\* the requests of a run that write a list
ListWrites == {"paperFirst", "notified", "upcoming", "paper"}

\* C31: a run that ends with the error of a lookup has written no list; for
\* the paper-to-kindle checker: neither the paper books nor the notified or
\* the upcoming list, whichever of GetItems and searchKindleEdition failed.
C31_LookupErrorWritesNoList ==
    (paper.pc = "failed" /\ paper.err \in PaperLookupErrors) =>
        \A k \in DOMAIN paper.trace : paper.trace[k] \notin ListWrites

\* the errors a run can end with after its lookup succeeded
StorageErrors ==
    {"failed to save notified ASINs", "failed to fetch upcoming ASINs",
     "failed to save upcoming ASINs", "failed to save authors"}

\* C33: a run in which the posts of a notification fail goes on as the same run
\* with successful posts: after the lookup it is in the state of that run (the
\* same maps to write, the same next step, no error), it ends with the errors
\* of its writes only, and when it is done it has written the cursor and the
\* notified and upcoming lists with the books it announced.
C33_SinkFailureChangesNothing ==
    /\ [][ \A p \in Invocations :
              (inv[p].pc = "lookup" /\ inv'[p].sinkFailed) =>
                  \E ans \in LookupAnswers :
                      /\ ans.sink
                      /\ [inv'[p] EXCEPT !.sinkFailed = FALSE] = searchAndNotify(inv[p], ans) ]_vars
    /\ [](\A p \in Invocations :
              inv[p].sinkFailed =>
                  /\ inv[p].pc = "failed" => inv[p].err \in StorageErrors
                  /\ inv[p].pc = "done" =>
                         /\ SubSeq(inv[p].trace, 1, 5)
                                = <<"cursor", "lookup", "notify", "notified", "upcoming">>
                         /\ ~overlap => /\ s3.prevIndex = Itoa(inv[p].index)
                                        /\ inv[p].found \subseteq MapOf(s3.notified)
                                        /\ inv[p].found \subseteq MapOf(s3.upcoming))

C33_Witness ==
    /\ inv[1].sinkFailed /\ inv[1].pc = "done" /\ inv[1].found # {}
    /\ inv[1].found \subseteq MapOf(s3.notified)
    /\ inv[1].found \subseteq MapOf(s3.upcoming)
    /\ s3.prevIndex = Itoa(inv[1].index)

\* ---------------------------------------------------------------------------
\* cleanTitle of the paper-to-kindle checker.  A title is a sequence of runes;
\* a rune outside ASCII is written by its code point.
\* ---------------------------------------------------------------------------

MaxTitleLen == 3

\* the first alternative of titleCleanRegex: [\(\)（）【】〔〕：:]
BracketOrColon ==
    {"(", ")", "U+FF08", "U+FF09", "U+3010", "U+3011", "U+3014", "U+3015", "U+FF1A", ":"}
\* [0-9０-９]
Digit ==
    {"0", "1", "2", "3", "4", "5", "6", "7", "8", "9",
     "U+FF10", "U+FF11", "U+FF12", "U+FF13", "U+FF14",
     "U+FF15", "U+FF16", "U+FF17", "U+FF18", "U+FF19"}
\* \s of the regexp package: [\t\n\f\r ]
RegexpSpace == {"U+0009", "U+000A", "U+000C", "U+000D", " "}
\* unicode.IsSpace, which strings.TrimSpace uses
IsSpace ==
    {"U+0009", "U+000A", "U+000B", "U+000C", "U+000D", " ", "U+0085", "U+00A0",
     "U+1680", "U+2000", "U+2001", "U+2002", "U+2003", "U+2004", "U+2005", "U+2006",
     "U+2007", "U+2008", "U+2009", "U+200A", "U+2028", "U+2029", "U+202F", "U+205F",
     "U+3000"}

\* the runes titles are drawn from: a letter, the kinds of whitespace, brackets,
\* colons and digits, ASCII and full-width
TitleRunes == {"a", " ", "U+3000", "(", "U+FF09", "U+3010", ":", "U+FF1A", "7", "U+FF17"}

RECURSIVE TitlesOfLen(_)
TitlesOfLen(n) ==
    IF n = 0 THEN {<<>>}
    ELSE {Append(s, r) : s \in TitlesOfLen(n - 1), r \in TitleRunes}

\* the inputs of TestCleanTitle and the results it expects, a run of letters
\* written as one letter
TestCleanTitle ==
    {[input |-> <<"a", " ", "6", " ", "(", "a", ")">>, expected |-> <<"a">>],
     [input |-> <<"a", "6", " ", "a", " ", "(", "a", ")">>, expected |-> <<"a">>],
     [input |-> <<"a", "U+3010", "a", "U+3011", "U+3000", "7", " ", "(", "a", ")">>,
      expected |-> <<"a">>],
     [input |-> <<"a", "U+FF08", "a", "U+FF09", " ", "U+FF1A", " ", "8", " ", "(", "a", ")">>,
      expected |-> <<"a">>],
     [input |-> <<"a", "(", "1", "6", ")", " ", "(", "a", ")">>, expected |-> <<"a">>],
     [input |-> <<"a", "U+3000", "U+FF16", " ", "(", "a", ")">>, expected |-> <<"a">>],
     [input |-> <<"a", "U+FF08", "U+FF12", "U+FF09", " ", "(", "a", ")">>,
      expected |-> <<"a">>]}

Titles ==
    UNION {TitlesOfLen(n) : n \in 0..MaxTitleLen} \cup {c.input : c \in TestCleanTitle}

\* does titleCleanRegex match s from position i on, and where does the match
\* end (0: no match at i): a bracket or a colon, or else a digit after any
\* number of \s
RECURSIVE skipRegexpSpace(_, _)
skipRegexpSpace(s, i) ==
    IF i <= Len(s) /\ s[i] \in RegexpSpace THEN skipRegexpSpace(s, i + 1) ELSE i

matchEnd(s, i) ==
    IF s[i] \in BracketOrColon THEN i
    ELSE IF skipRegexpSpace(s, i) <= Len(s) /\ s[skipRegexpSpace(s, i)] \in Digit
         THEN skipRegexpSpace(s, i)
         ELSE 0

\* the leftmost match, as FindAllStringIndex finds it first (0: none)
RECURSIVE firstMatchFrom(_, _)
firstMatchFrom(s, i) ==
    IF i > Len(s) THEN 0
    ELSE IF matchEnd(s, i) # 0 THEN i
    ELSE firstMatchFrom(s, i + 1)

\* titleCleanRegex.Split(title, 2)[0]: the empty title gives the empty string,
\* a title without a match gives the title, and otherwise the part before the
\* first match (no match of this expression is empty)
SplitFirst(s) ==
    IF Len(s) = 0 THEN <<>>
    ELSE IF firstMatchFrom(s, 1) = 0 THEN s
    ELSE SubSeq(s, 1, firstMatchFrom(s, 1) - 1)

RECURSIVE TrimLeft(_, _)
TrimLeft(s, spaces) ==
    IF Len(s) > 0 /\ s[1] \in spaces THEN TrimLeft(Tail(s), spaces) ELSE s
RECURSIVE TrimRight(_, _)
TrimRight(s, spaces) ==
    IF Len(s) > 0 /\ s[Len(s)] \in spaces
    THEN TrimRight(SubSeq(s, 1, Len(s) - 1), spaces) ELSE s

TrimAsciiSpace(s) == TrimRight(TrimLeft(s, RegexpSpace), RegexpSpace)
TrimSpace(s) == TrimRight(TrimLeft(s, IsSpace), IsSpace)

cleanTitle(title) == TrimSpace(SplitFirst(title))

TitleInit ==
    /\ RetryUnused
    /\ itemCount = 1 /\ cycleUnits = 1 /\ now = 0 /\ slot = IdleSlot
    /\ s3 = EmptyBucket
    /\ inv = [p \in Invocations |-> IdleInv]
    /\ lastPass = NoPass
    /\ overlap = FALSE
    /\ SaleUnused
    /\ paper = IdlePaper
    /\ \E title \in Titles : cleaning = [pc |-> "call", title |-> title, result |-> <<>>]

CleanTitle ==
    /\ cleaning.pc = "call"
    /\ cleaning' = [cleaning EXCEPT !.pc = "returned", !.result = cleanTitle(cleaning.title)]
    /\ UNCHANGED <<slotVars, retryVars, checkerVars, saleVars, paper>>

TitleNext == CleanTitle
TitleSpec == TitleInit /\ [][TitleNext]_vars

\* the delimiters the claim names: brackets, colons and digits
Delimiter == BracketOrColon \cup Digit

\* the position of the first delimiter of a title (one past its end: none)
FirstDelimiter(title) ==
    IF \E i \in DOMAIN title : title[i] \in Delimiter
    THEN CHOOSE i \in DOMAIN title :
             /\ title[i] \in Delimiter
             /\ \A j \in 1..(i - 1) : title[j] \notin Delimiter
    ELSE Len(title) + 1

IsPrefixOf(s, t) == Len(s) <= Len(t) /\ s = SubSeq(t, 1, Len(s))

\* the title without its leading and trailing whitespace, said without TrimSpace
IsTrimOf(s, t) ==
    \E a \in 1..(Len(t) + 1) :
    \E b \in 0..Len(t) :
        /\ s = SubSeq(t, a, b)
        /\ \A i \in 1..(a - 1) : i <= Len(t) => t[i] \in IsSpace
        /\ \A i \in (b + 1)..Len(t) : t[i] \in IsSpace
        /\ Len(s) > 0 => s[1] \notin IsSpace /\ s[Len(s)] \notin IsSpace

\* C34: cleanTitle returns the part of the title before its first bracket,
\* colon or digit without the whitespace at its two ends; the result holds no
\* delimiter, it is a prefix of the title without the whitespace at its ends,
\* and the inputs of TestCleanTitle give the results the test expects.
C34_CleanTitleIsTrimmedPrefix ==
    cleaning.pc = "returned" =>
        /\ IsTrimOf(cleaning.result,
                    SubSeq(cleaning.title, 1, FirstDelimiter(cleaning.title) - 1))
        /\ \A i \in DOMAIN cleaning.result : cleaning.result[i] \notin Delimiter
        /\ \E trimmed \in {SubSeq(cleaning.title, a, b) :
                               a \in 1..(Len(cleaning.title) + 1), b \in 0..Len(cleaning.title)} :
               /\ IsTrimOf(trimmed, cleaning.title)
               /\ IsPrefixOf(cleaning.result, trimmed)
        /\ \A c \in TestCleanTitle :
               cleaning.title = c.input => cleaning.result = c.expected

\* '<name> <volume> (<label>)' has given '<name>', and a title whose volume
\* follows full-width whitespace has lost that whitespace
C34_Witness ==
    /\ cleaning.pc = "returned"
    /\ cleaning.title = <<"a", "U+3000", "U+FF16", " ", "(", "a", ")">>
    /\ cleaning.result = <<"a">>

\* ---------------------------------------------------------------------------
\* One run of sale-checker, one storage call at a time, beside one call of
\* SaveNotifiedAndUpcomingASINs by new-release checker or paper-to-kindle
\* checker, which adds a book to the upcoming list.
\* ---------------------------------------------------------------------------

\* the unprocessed list holds at most MaxListed books at the start
MaxListed == 1

\* a book as a checker puts it in upcomingMap: MakeBook(item, 0)
Announced(a) == MakeBook(a, InitialRemote, 0)

UpcomingInit ==
    /\ RetryUnused
    /\ itemCount = 1 /\ cycleUnits = 1 /\ now = 0 /\ slot = IdleSlot
    /\ inv = [p \in Invocations |-> IdleInv]
    /\ lastPass = NoPass
    /\ overlap = FALSE
    /\ PaperUnused
    /\ sale = IdleSale /\ remote = InitialRemote
    /\ \E n \in 0..MaxListed :
       \E up \in {<<>>, <<Announced(n + 1)>>} :
       \E new \in {n + 1, n + 2} :
           /\ s3 = [EmptyBucket EXCEPT !.salePrevIndex = Itoa(0),
                                       !.unprocessed = InitialBooks(n),
                                       !.upcoming = up]
           /\ clearing = [IdleClearing EXCEPT !.pc = "fetchUnprocessed",
                                              !.appender = "fetch",
                                              !.upcomingMap = {Announced(new)},
                                              !.stored = AsinsOf(up)]

ClearingFail(msg) == [clearing EXCEPT !.pc = "failed", !.err = msg]

\* originalBooks, err := utils.FetchASINs(cfg, S3UnprocessedObjectKey)
RunFetchUnprocessed ==
    /\ clearing.pc = "fetchUnprocessed"
    /\ \E ok \in BOOLEAN :
        clearing' = IF ok THEN [clearing EXCEPT !.pc = "fetchUpcoming",
                                                !.originalBooks = s3.unprocessed]
                    ELSE ClearingFail("failed to fetch unprocessed ASINs")
    /\ UNCHANGED s3

\* upcomingBooks, err := utils.FetchASINs(cfg, S3UpcomingObjectKey)
RunFetchUpcoming ==
    /\ clearing.pc = "fetchUpcoming"
    /\ \E ok \in BOOLEAN :
        clearing' = IF ok THEN [clearing EXCEPT !.pc = "checkBooks",
                                                !.upcomingBooks = s3.upcoming]
                    ELSE ClearingFail("failed to fetch upcoming ASINs")
    /\ UNCHANGED s3

\* allBooks, the segment (the cursor is read here) and checkBooksForSales, which
\* returns every book of the segment with the data the API reports
RunCheckBooks ==
    /\ clearing.pc = "checkBooks"
    /\ \E ok \in BOOLEAN :
       \E allBooks \in {UniqueASINs(clearing.originalBooks \o clearing.upcomingBooks)} :
       \E seg \in {getNextProcessingSegment(allBooks,
                       [ok |-> TRUE, body |-> s3.salePrevIndex])} :
       \E processedBooks \in
              {checkBooksForSales(SubSeq(allBooks, seg.startIndex + 1, seg.endIndex),
                                  [odd |-> "none", kind |-> "updated"], remote)} :
        clearing' =
            IF ok
            THEN [clearing EXCEPT
                     !.pc = "putCursor",
                     !.startIndex = seg.startIndex,
                     !.processedBooks = processedBooks,
                     !.updatedBooks =
                         SortByReleaseDate(replaceProcessedSegment(
                             allBooks, processedBooks, seg.startIndex, seg.endIndex))]
            ELSE ClearingFail("PA API processing failed")
    /\ UNCHANGED s3

\* the cursor is saved; a merged list equal to the fetched one ends the run
RunPutCursor ==
    /\ clearing.pc = "putCursor"
    /\ \E ok \in BOOLEAN :
        IF ok
        THEN /\ s3' = [s3 EXCEPT !.salePrevIndex =
                          Itoa(nextIndex(clearing.startIndex, 0, clearing.processedBooks))]
             /\ clearing' = [clearing EXCEPT
                                !.pc = IF clearing.originalBooks = clearing.updatedBooks
                                       THEN "done" ELSE "saveList"]
        ELSE /\ s3' = s3
             /\ clearing' = ClearingFail("failed to save progress index")

\* utils.SaveASINs(cfg, updatedBooks, S3UnprocessedObjectKey)
RunSaveList ==
    /\ clearing.pc = "saveList"
    /\ \E ok \in BOOLEAN :
        IF ok
        THEN /\ s3' = [s3 EXCEPT !.unprocessed = clearing.updatedBooks]
             /\ clearing' = [clearing EXCEPT !.pc = "updateGist"]
        ELSE /\ s3' = s3
             /\ clearing' = ClearingFail("failed to save unprocessed ASINs")

RunUpdateGist ==
    /\ clearing.pc = "updateGist"
    /\ \E ok \in BOOLEAN :
        clearing' = IF ok THEN [clearing EXCEPT !.pc = "rereadUpcoming"]
                    ELSE ClearingFail("error update gist")
    /\ UNCHANGED s3

\* clearUpcomingBooksIfUnchanged: the list is fetched again and compared with
\* the list the run fetched at its start
RunRereadUpcoming ==
    /\ clearing.pc = "rereadUpcoming"
    /\ \E ok \in BOOLEAN :
        clearing' =
            IF ok
            THEN [clearing EXCEPT !.currentUpcoming = s3.upcoming,
                                  !.pc = IF clearing.upcomingBooks = s3.upcoming
                                         THEN "clearUpcoming" ELSE "done"]
            ELSE ClearingFail("failed to clear upcoming books")
    /\ UNCHANGED s3

\* utils.SaveASINs(cfg, []utils.KindleBook{}, S3UpcomingObjectKey)
RunClearUpcoming ==
    /\ clearing.pc = "clearUpcoming"
    /\ \E ok \in BOOLEAN :
        IF ok
        THEN /\ s3' = [s3 EXCEPT !.upcoming = <<>>]
             /\ clearing' = [clearing EXCEPT !.pc = "done", !.cleared = TRUE]
        ELSE /\ s3' = s3
             /\ clearing' = ClearingFail("failed to clear upcoming books")

\* updateUpcomingASINs: the list is fetched and put into the map ...
AppendFetchUpcoming ==
    /\ clearing.appender = "fetch"
    /\ \E ok \in BOOLEAN :
        clearing' =
            IF ok
            THEN [clearing EXCEPT
                     !.appender = "save",
                     !.upcomingMap = updateUpcomingASINs(clearing.upcomingMap, s3.upcoming)]
            ELSE [clearing EXCEPT !.appender = "failed"]
    /\ UNCHANGED s3

\* ... and the list of the map is saved
AppendSaveUpcoming ==
    /\ clearing.appender = "save"
    /\ \E ok \in BOOLEAN :
        IF ok
        THEN /\ s3' = [s3 EXCEPT !.upcoming = saveBooksFromMap(clearing.upcomingMap)]
             /\ clearing' = [clearing EXCEPT
                                !.appender = "done",
                                !.stored = @ \cup AsinsOf(saveBooksFromMap(clearing.upcomingMap))]
        ELSE /\ s3' = s3
             /\ clearing' = [clearing EXCEPT !.appender = "failed"]

UpcomingNext ==
    \/ (RunFetchUnprocessed
            /\ UNCHANGED <<slotVars, retryVars, inv, lastPass, overlap, paperVars, sale, remote>>)
    \/ (RunFetchUpcoming
            /\ UNCHANGED <<slotVars, retryVars, inv, lastPass, overlap, paperVars, sale, remote>>)
    \/ (RunCheckBooks
            /\ UNCHANGED <<slotVars, retryVars, inv, lastPass, overlap, paperVars, sale, remote>>)
    \/ (RunPutCursor
            /\ UNCHANGED <<slotVars, retryVars, inv, lastPass, overlap, paperVars, sale, remote>>)
    \/ (RunSaveList
            /\ UNCHANGED <<slotVars, retryVars, inv, lastPass, overlap, paperVars, sale, remote>>)
    \/ (RunUpdateGist
            /\ UNCHANGED <<slotVars, retryVars, inv, lastPass, overlap, paperVars, sale, remote>>)
    \/ (RunRereadUpcoming
            /\ UNCHANGED <<slotVars, retryVars, inv, lastPass, overlap, paperVars, sale, remote>>)
    \/ (RunClearUpcoming
            /\ UNCHANGED <<slotVars, retryVars, inv, lastPass, overlap, paperVars, sale, remote>>)
    \/ (AppendFetchUpcoming
            /\ UNCHANGED <<slotVars, retryVars, inv, lastPass, overlap, paperVars, sale, remote>>)
    \/ (AppendSaveUpcoming
            /\ UNCHANGED <<slotVars, retryVars, inv, lastPass, overlap, paperVars, sale, remote>>)

UpcomingSpec == UpcomingInit /\ [][UpcomingNext]_vars

\* C37: the run is about to clear the upcoming list only when the list it
\* fetched again equals the list it fetched at its start, and every book that
\* was ever stored in the upcoming list is in the upcoming list or in the
\* unprocessed list.
C37_NoUpcomingBookLost ==
    /\ clearing.pc = "clearUpcoming" => clearing.currentUpcoming = clearing.upcomingBooks
    /\ \A a \in clearing.stored :
           a \in AsinsOf(s3.upcoming) \cup AsinsOf(s3.unprocessed)

\* the two halves of the claim, one by one
C37_ClearsOnlyIfSnapshotRead ==
    /\ clearing.pc = "clearUpcoming" => clearing.currentUpcoming = clearing.upcomingBooks
    /\ clearing.cleared => clearing.currentUpcoming = clearing.upcomingBooks
C37_LostOnlyInRace ==
    (\E a \in clearing.stored : a \notin AsinsOf(s3.upcoming) \cup AsinsOf(s3.unprocessed))
        => clearing.cleared /\ clearing.appender = "done"
               /\ clearing.upcomingMap # MapOf(clearing.upcomingBooks)

====
